---- MODULE Spec2Model ----
(***************************************************************************)
(* A model of the Python front ends of avrdude: the fuse bitfield codec of *)
(* src/python/adgui.py (dissect_fuse, default_fuse, synthesize_fuse), the  *)
(* programmer session handling of the adgui class, and the session helpers *)
(* of src/python/swigtest.py.                                              *)
(*                                                                         *)
(* Strings that the code searches or concatenates (memstr, the fuse key)   *)
(* are sequences of one-character strings, so that str.find and '+' are    *)
(* computed; strings that the code only compares (names, labels) are TLA+  *)
(* strings.                                                                *)
(***************************************************************************)
EXTENDS Integers, Sequences, FiniteSets, TLC

\* ------------------------------------------------------------------ bounds

\* longest configuration table (number of bitfield entries)
MaxEntries == 2

\* ------------------------------------------------- Python integer operators

RECURSIVE BitAnd(_, _)
\* a & b for non-negative Python integers
BitAnd(a, b) ==
    IF a = 0 \/ b = 0 THEN 0
    ELSE ((a % 2) * (b % 2)) + 2 * BitAnd(a \div 2, b \div 2)

RECURSIVE BitOr(_, _)
\* a | b for non-negative Python integers
BitOr(a, b) ==
    IF a = 0 THEN b
    ELSE IF b = 0 THEN a
    ELSE (IF (a % 2) + (b % 2) > 0 THEN 1 ELSE 0) + 2 * BitOr(a \div 2, b \div 2)

RECURSIVE AndNot(_, _)
\* a & ~m for non-negative Python integers (~m is the infinite complement)
AndNot(a, m) ==
    IF a = 0 THEN 0
    ELSE (IF m % 2 = 1 THEN 0 ELSE a % 2) + 2 * AndNot(a \div 2, m \div 2)

\* v << n
Shl(v, n) == v * (2 ^ n)

\* v >> n for non-negative v
Shr(v, n) == v \div (2 ^ n)

\* ---------------------------------------------------- Python str operators

\* the characters '0' .. '9'
DigitChar == <<"0", "1", "2", "3", "4", "5", "6", "7", "8", "9">>

RECURSIVE Str(_)
\* str(n) for a non-negative integer: its decimal digits
Str(n) ==
    IF n < 10 THEN <<DigitChar[n + 1]>>
    ELSE Str(n \div 10) \o <<DigitChar[(n % 10) + 1]>>

\* s.find(sub): the lowest index (from 0) at which sub occurs in s, or -1
Find(s, sub) ==
    LET hits == {k \in 1..(Len(s) + 1 - Len(sub)) :
                    SubSeq(s, k, k + Len(sub) - 1) = sub}
    IN  IF hits = {} THEN -1
        ELSE (CHOOSE k \in hits : \A h \in hits : k <= h) - 1

\* the string literals of the codec
STR_fuse == <<"f", "u", "s", "e">>
STR_lock == <<"l", "o", "c", "k">>

\* ------------------------------------------------------ fuse bitfield codec

\* the key of a config entry: its memstr, or 'fuse' + str(memoffset) when the
\* memstr holds no 'fuse' (avrX parts, where fuseN is an alias only)
EntryKey(i) ==
    IF Find(i.memstr, STR_fuse) = -1
    THEN STR_fuse \o Str(i.memoffset)
    ELSE i.memstr

\* the entries python/swigtest.py's codec loops do not skip: memstr = fuse
EntryMatches_memstr(i, fuse) == i.memstr = fuse

\* the entries the three codec loops do not skip: not 'lock', and key = fuse
EntryMatches(i, fuse) ==
    /\ i.memstr # STR_lock
    /\ EntryKey(i) = fuse

\* the pairs of an inner loop that ends at the first option found
DissectEntry_break(i, val) ==
    LET thisval == Shr(BitAnd(val, i.mask), i.lsh)
        hits    == SelectSeq(i.vlist, LAMBDA j : j.value = thisval)
    IN  IF Len(hits) = 0 THEN <<>> ELSE << <<i.name, hits[1].label>> >>

\* the pairs the inner loop of dissect_fuse appends for one entry
DissectEntry(i, val) ==
    LET thisval == Shr(BitAnd(val, i.mask), i.lsh)
        hits    == SelectSeq(i.vlist, LAMBDA j : j.value = thisval)
    IN  [k \in 1..Len(hits) |-> <<i.name, hits[k].label>>]

RECURSIVE DissectLoop(_, _, _, _)
\* the outer loop of dissect_fuse from entry k on
DissectLoop(config, fuse, val, k) ==
    IF k > Len(config) THEN <<>>
    ELSE (IF EntryMatches(config[k], fuse)
          THEN DissectEntry(config[k], val)
          ELSE <<>>) \o DissectLoop(config, fuse, val, k + 1)

\* dissect_fuse(config, fuse, val): the list of (name, label) pairs
dissect_fuse(config, fuse, val) == DissectLoop(config, fuse, val, 1)

RECURSIVE DefaultLoop_keep(_, _, _, _)
\* a loop of default_fuse that sets the initial value without clearing the mask
DefaultLoop_keep(config, fuse, k, resval) ==
    IF k > Len(config) THEN resval
    ELSE IF EntryMatches(config[k], fuse)
         THEN DefaultLoop_keep(config, fuse, k + 1,
                  BitOr(resval, Shl(config[k].initval, config[k].lsh)))
         ELSE DefaultLoop_keep(config, fuse, k + 1, resval)

RECURSIVE DefaultLoop(_, _, _, _)
\* the loop of default_fuse from entry k on, resval being the value so far
DefaultLoop(config, fuse, k, resval) ==
    IF k > Len(config) THEN resval
    ELSE IF EntryMatches(config[k], fuse)
         THEN DefaultLoop(config, fuse, k + 1,
                  BitOr(AndNot(resval, config[k].mask),
                        Shl(config[k].initval, config[k].lsh)))
         ELSE DefaultLoop(config, fuse, k + 1, resval)

\* default_fuse with resval = 0 as the start value
default_fuse_zero(config, fuse) == DefaultLoop(config, fuse, 1, 0)

\* default_fuse(config, fuse): the default value of a fuse
default_fuse(config, fuse) == DefaultLoop(config, fuse, 1, 255)

\* itemlist of synthesize_fuse: the labels of vallist (the names are dropped)
ItemList(vallist) == {vallist[k][2] : k \in 1..Len(vallist)}

RECURSIVE SynthesizeEntry(_, _, _, _)
\* the inner loop of synthesize_fuse over the options of entry i from option n on
SynthesizeEntry(i, itemlist, n, resval) ==
    IF n > Len(i.vlist) THEN resval
    ELSE SynthesizeEntry(i, itemlist, n + 1,
             IF i.vlist[n].label \in itemlist
             THEN BitOr(resval, Shl(i.vlist[n].value, i.lsh))
             ELSE resval)

RECURSIVE SynthesizeLoop(_, _, _, _, _)
\* the outer loop of synthesize_fuse from entry k on
SynthesizeLoop(config, fuse, itemlist, k, resval) ==
    IF k > Len(config) THEN resval
    ELSE IF EntryMatches(config[k], fuse)
         THEN SynthesizeLoop(config, fuse, itemlist, k + 1,
                  SynthesizeEntry(config[k], itemlist, 1,
                                  AndNot(resval, config[k].mask)))
         ELSE SynthesizeLoop(config, fuse, itemlist, k + 1, resval)

\* synthesize_fuse with resval = 0 as the start value
synthesize_fuse_zero(config, fuse, vallist) ==
    SynthesizeLoop(config, fuse, ItemList(vallist), 1, 0)

\* synthesize_fuse(config, fuse, vallist): the value of a fuse
synthesize_fuse(config, fuse, vallist) ==
    SynthesizeLoop(config, fuse, ItemList(vallist), 1, 255)

\* ------------------------------- fuse bitfield codec of python/swigtest.py

RECURSIVE sw_DissectLoop(_, _, _, _)
\* the outer loop of swigtest's dissect_fuse from entry k on: only entries
\* whose memstr is the key are looked at
sw_DissectLoop(config, fuse, val, k) ==
    IF k > Len(config) THEN <<>>
    ELSE (IF config[k].memstr = fuse
          THEN DissectEntry(config[k], val)
          ELSE <<>>) \o sw_DissectLoop(config, fuse, val, k + 1)

\* swigtest's dissect_fuse(config, fuse, val)
sw_dissect_fuse(config, fuse, val) == sw_DissectLoop(config, fuse, val, 1)

RECURSIVE sw_SynthesizeLoop(_, _, _, _, _)
\* the outer loop of swigtest's synthesize_fuse from entry k on: the values
\* of the chosen options are or-ed into resval, no mask is cleared
sw_SynthesizeLoop(config, fuse, itemlist, k, resval) ==
    IF k > Len(config) THEN resval
    ELSE IF config[k].memstr = fuse
         THEN sw_SynthesizeLoop(config, fuse, itemlist, k + 1,
                  SynthesizeEntry(config[k], itemlist, 1, resval))
         ELSE sw_SynthesizeLoop(config, fuse, itemlist, k + 1, resval)

\* swigtest's synthesize_fuse(config, fuse, vallist): resval starts as 0
sw_synthesize_fuse(config, fuse, vallist) ==
    sw_SynthesizeLoop(config, fuse, ItemList(vallist), 1, 0)

RECURSIVE sw_DefaultLoop(_, _, _, _)
\* the loop of swigtest's default_fuse from entry k on
sw_DefaultLoop(config, fuse, k, resval) ==
    IF k > Len(config) THEN resval
    ELSE IF config[k].memstr = fuse
         THEN sw_DefaultLoop(config, fuse, k + 1,
                  BitOr(AndNot(resval, config[k].mask),
                        Shl(config[k].initval, config[k].lsh)))
         ELSE sw_DefaultLoop(config, fuse, k + 1, resval)

\* swigtest's default_fuse(config, fuse): resval starts as 0xff
sw_default_fuse(config, fuse) == sw_DefaultLoop(config, fuse, 1, 255)

\* ------------------------------------------- configuration tables (inputs)

\* the sequences over S of length at most n
SeqsUpTo(S, n) == UNION {[1..k -> S] : k \in 0..n}

STR_lfuse  == <<"l", "f", "u", "s", "e">>
STR_hfuse  == <<"h", "f", "u", "s", "e">>
STR_fuse1  == <<"f", "u", "s", "e", "1">>
STR_bodcfg == <<"b", "o", "d", "c", "f", "g">>
STR_efuse  == <<"e", "f", "u", "s", "e">>
STR_fuse0  == <<"f", "u", "s", "e", "0">>
STR_fuses  == <<"f", "u", "s", "e", "s">>
STR_flash  == <<"f", "l", "a", "s", "h">>
STR_eeprom == <<"e", "e", "p", "r", "o", "m">>
STR_signature == <<"s", "i", "g", "n", "a", "t", "u", "r", "e">>

\* Entries as ad.get_config_table() returns them, with the keys 'name',
\* 'vlist', 'memstr', 'memoffset', 'mask', 'lsh', 'initval' (ccomment and
\* vcomment are never part of a result and are left out).
E_sut_cksel ==
    [name |-> "sut_cksel", memstr |-> STR_lfuse, memoffset |-> 0,
     mask |-> 63, lsh |-> 0, initval |-> 2,
     vlist |-> << [value |-> 2, label |-> "intrcosc"],
                  [value |-> 0, label |-> "extclk"] >>]

E_ckout ==
    [name |-> "ckout", memstr |-> STR_lfuse, memoffset |-> 0,
     mask |-> 64, lsh |-> 6, initval |-> 1,
     vlist |-> << [value |-> 0, label |-> "co_enabled"],
                  [value |-> 1, label |-> "co_disabled"] >>]

\* overlaps sut_cksel (a table that breaks the non-overlap rule)
E_cksel ==
    [name |-> "cksel", memstr |-> STR_lfuse, memoffset |-> 0,
     mask |-> 15, lsh |-> 0, initval |-> 2,
     vlist |-> << [value |-> 2, label |-> "intrcosc_8mhz"] >>]

\* two options with the same value
E_rstdisbl ==
    [name |-> "rstdisbl", memstr |-> STR_hfuse, memoffset |-> 1,
     mask |-> 128, lsh |-> 7, initval |-> 1,
     vlist |-> << [value |-> 1, label |-> "external_reset"],
                  [value |-> 0, label |-> "gpio"],
                  [value |-> 0, label |-> "gpio_pb5"] >>]

\* avrX bitfields: the memstr is an alias, the key is fuse1; both bitfields
\* name their options alike
E_sleep ==
    [name |-> "sleep", memstr |-> STR_bodcfg, memoffset |-> 1,
     mask |-> 3, lsh |-> 0, initval |-> 0,
     vlist |-> << [value |-> 0, label |-> "dis"],
                  [value |-> 1, label |-> "enabled"],
                  [value |-> 2, label |-> "sampled"] >>]

E_active ==
    [name |-> "active", memstr |-> STR_bodcfg, memoffset |-> 1,
     mask |-> 12, lsh |-> 2, initval |-> 1,
     vlist |-> << [value |-> 0, label |-> "dis"],
                  [value |-> 1, label |-> "enabled"] >>]

\* the initval is none of the options
E_wdper ==
    [name |-> "wdper", memstr |-> STR_fuse1, memoffset |-> 1,
     mask |-> 240, lsh |-> 4, initval |-> 5,
     vlist |-> << [value |-> 0, label |-> "8cyc"],
                  [value |-> 1, label |-> "16cyc"] >>]

E_lb ==
    [name |-> "lb", memstr |-> STR_lock, memoffset |-> 0,
     mask |-> 3, lsh |-> 0, initval |-> 3,
     vlist |-> << [value |-> 3, label |-> "no_lock"],
                  [value |-> 0, label |-> "pgm_and_verify_disabled"] >>]

EntryPool ==
    {E_sut_cksel, E_ckout, E_cksel, E_rstdisbl, E_sleep, E_active, E_wdper, E_lb}

\* the configuration tables of the model
Configs == SeqsUpTo(EntryPool, MaxEntries)

\* the fuse keys a caller asks for
Keys == {STR_lfuse, STR_hfuse, STR_fuse1, STR_lock, STR_bodcfg}

\* the fuse values a caller dissects (besides the ones the codec returned)
Vals == {0, 255, 66, 5, 128}

\* the lists of (name, label) pairs a caller hands to synthesize_fuse (besides
\* the lists the codec returned)
Vallists ==
    { <<>>,
      << <<"sleep", "enabled">> >>,
      << <<"active", "dis">> >>,
      << <<"sleep", "enabled">>, <<"active", "dis">> >>,
      << <<"sut_cksel", "intrcosc">> >>,
      << <<"sut_cksel", "extclk">>, <<"ckout", "co_enabled">> >>,
      << <<"rstdisbl", "gpio">> >> }

\* ------------------------------------ parts and programmers (avrdude.conf)

\* Python's None, for the attributes that hold an object or a string
None == "None"

\* no memory (a call that takes none)
NoMem == <<>>

\* the parts of ad.cvar.part_list the dialogs offer, by desc
Parts == {"ATmega328P", "AVR32DA28"}

\* the names of the memories of a part, in the order of part.mem
PartMem(part) ==
    CASE part = "ATmega328P" ->
           <<STR_eeprom, STR_flash, STR_lfuse, STR_hfuse, STR_efuse, STR_lock,
             STR_signature>>
      [] part = "AVR32DA28" ->
           <<STR_fuses, STR_fuse0, STR_fuse1, STR_lock, STR_eeprom, STR_flash,
             STR_signature>>
      [] part = "AT89S51" -> <<STR_flash, STR_signature>>
      [] OTHER -> <<>>

\* m.size of the flash and eeprom memories
MemSize(part, mem) ==
    CASE mem = STR_flash  -> 32768
      [] mem = STR_eeprom -> (IF part = "AVR32DA28" THEN 512 ELSE 1024)
      [] OTHER -> 1

\* m.paged of a memory: the flash is written by pages, the fuse, lock and
\* signature bytes and the EEPROM are not
Paged(part, mem) == mem = STR_flash

\* ad.avr_locate_mem(part, name): whether the part has a memory of that name
HasMem(part, name) == \E k \in 1..Len(PartMem(part)) : PartMem(part)[k] = name

\* the devices of the device dialog: the parts of the sessions and a part
\* without fuse memories
AllParts == Parts \cup {"AT89S51"}

\* the programmers of ad.cvar.programmers the dialog offers, by id
Programmers == {"avrisp2", "xplainedmini"}

\* the texts of the port entry of the programmer dialog
Ports == {"set_this", "usb"}

\* ad.get_config_table(part.desc): the bitfield table of a part (empty when
\* the library has none)
ConfigTable(part) ==
    CASE part = "ATmega328P" -> <<E_sut_cksel, E_ckout, E_rstdisbl, E_lb>>
      [] part = "AVR32DA28" -> <<E_sleep, E_active, E_wdper>>
      [] OTHER -> <<>>

\* ------------------------------------------------------------------- state

VARIABLES
    program,        \* which front end runs: "adgui", "swigtest" or "codec" (a codec caller)
    codec_config,   \* config: the table the codec is called with
    codec_fuse,     \* fuse: the key the codec is called with
    codec_val,      \* val: the argument of dissect_fuse, or the last value returned
    codec_vallist,  \* vallist: the argument of synthesize_fuse, or the last list returned
    codec_op,       \* the codec function called last
    codec_sw,       \* what python/swigtest.py's function of that name returns for the call
    running,        \* adgui: the Qt event loop runs (no lastWindowClosed yet)
    initialized,    \* self.initialized
    port,           \* self.port
    pgm,            \* self.pgm, by the id of the PROGRAMMER object
    prog_selected,  \* self.prog_selected
    dev,            \* self.dev, by the desc of the AVRPART object
    dev_selected,   \* self.dev_selected
    connected,      \* self.connected
    flash_size,     \* self.flash_size
    eeprom_size,    \* self.eeprom_size (meaningful once "eeprom_size" is in defined)
    devcfg,         \* self.devcfg (meaningful once "devcfg" is in defined)
    fuselabels,     \* self.fuselabels, in key order: <<[name, idx, allocated]>>
    defined,        \* the attributes of self that are set only after __init__
    ui,             \* enabled flags of menu actions and tabs, visibility of the memories window
    buffers,        \* style sheet of memories.buffer and memories.ee_buffer
    file_tab,       \* the tab of the memories window whose file widgets the user works with
    ff,             \* the checked file format radio button of each tab
    fnames,         \* self.flashname, self.eepromname, self.fusename (once in defined)
    fbuttons,       \* each tab: its Load and Save buttons are enabled
    fval,           \* the text of the line edits fval0, fval1, ..., by idx + 1
    report,         \* the fields of the memories the last report of a part read
    conf,           \* the start of adgui.py: os, build directories, builddir, result
    decoder,        \* tools/scripts_decoder.py: the XML, its dictionaries and the generated table
    lib,            \* libavrdude's side of each PROGRAMMER: last call, port open, part
    calls,          \* the library calls made by the handler that ran last
    sw_p,           \* swigtest: the module-level name p
    sw_held         \* swigtest: the programmers start_programmer returned to the user

\* the state of the code that runs before and beside the front ends
tool_vars == <<conf, decoder>>

codec_vars == <<codec_config, codec_fuse, codec_val, codec_vallist, codec_op,
               codec_sw>>

\* the state of the tabs of the memories window
\* the file widgets of the tabs
file_vars == <<file_tab, ff, fnames, fbuttons, fval>>

mem_vars == <<buffers, file_vars, report>>

gui_vars == <<running, initialized, port, pgm, prog_selected, dev, dev_selected,
              connected, flash_size, eeprom_size, devcfg, fuselabels, defined,
              ui, mem_vars>>

sw_vars == <<sw_p, sw_held>>

vars == <<program, tool_vars, codec_vars, gui_vars, lib, calls, sw_vars>>

\* ------------------------------------------------ calls into libavrdude

\* the PROGRAMMER objects before any call
LibInit ==
    [last |-> [p \in Programmers |-> "none"],
     open |-> [p \in Programmers |-> FALSE],
     part |-> [p \in Programmers |-> None]]

\* the calls that transfer or erase device memory
MemOps == {"avr_read_mem", "avr_write_mem", "chip_erase"}

\* One call on programmer p, made in state st = [lib, calls]: the call is
\* logged with the call that preceded it on p (memory operations as
\* "memop"), the part and memory handed
\* over and self.connected; open_ok opens the port, close closes it,
\* enable and initialize bind the part.
LibCall(st, p, call, part, mem, conn) ==
    [lib |->
        [last |-> [st.lib.last EXCEPT ![p] =
                      IF call \in MemOps THEN "memop" ELSE call],
         open |-> [st.lib.open EXCEPT ![p] =
                      IF call = "open_ok" THEN TRUE
                      ELSE IF call = "close" THEN FALSE ELSE @],
         part |-> [st.lib.part EXCEPT ![p] =
                      IF call \in {"enable", "initialize"} THEN part ELSE @]],
     calls |-> Append(st.calls,
                  [pgm |-> p, call |-> call, prev |-> st.lib.last[p],
                   part |-> part, mem |-> mem, conn |-> conn,
                   fmt |-> None, file |-> NoMem, len |-> 0, rv |-> 0])]

\* the state a handler starts its calls from
Handler == [lib |-> lib, calls |-> <<>>]

\* pgm.open(port): the return value -1 is the failure sentinel
OpenCall(rv) == IF rv = -1 THEN "open_failed" ELSE "open_ok"

\* ------------------------------------------------------------ adgui state

\* fuse_names(): the fuse memories of a part, in memory order
fuse_names(part) ==
    SelectSeq(PartMem(part),
              LAMBDA name : name # STR_fuses /\ Find(name, STR_fuse) # -1)

\* enable_fuses(): self.fuselabels after the call, for the part just selected
enable_fuses(part, old) ==
    LET fuses == fuse_names(part)
    IN  IF Len(fuses) = 0 THEN old
        ELSE [k \in 1..Len(fuses) |->
                 [name |-> fuses[k], idx |-> k - 1, allocated |-> FALSE]]

\* the widgets before any handler ran (the help text: Device -> Programming is
\* enabled once the programmer started, the memory tabs once the signature
\* was read)
UiInit ==
    [actionAttach |-> FALSE, actionDetach |-> FALSE, actionProgramming |-> FALSE,
     memories |-> FALSE, tabs |-> FALSE]

\* the tabs with a file line
FileTabs == {"flash", "eeprom", "fuses"}

\* the file format radio buttons of a tab
Formats == {"Auto", "ELF", "Ihex", "Srec", "Rbin"}

\* the number of fvalN line edits the model keeps (a part has at most three
\* fuse memories here)
NumFval == 3

\* the file widgets before any handler ran: format Auto, no name, Load and
\* Save disabled, empty line edits
FilesInit ==
    /\ ff = [t \in FileTabs |-> "Auto"]
    /\ fnames = [t \in FileTabs |-> <<>>]
    /\ fbuttons = [t \in FileTabs |-> FALSE]
    /\ fval = [k \in 1..NumFval |-> <<>>]

\* the memories of a part: avrpart_to_mem(p)
MemsOf(part) == {PartMem(part)[k] : k \in 1..Len(PartMem(part))}

\* the fields of the memories update_device_info() reads to fill the table of
\* the device info window for part p
update_device_info(p) ==
    {[part |-> p, mem |-> m, field |-> f] :
        m \in MemsOf(p), f \in {"desc", "size", "paged"}}
    \cup {[part |-> p, mem |-> m, field |-> f] :
            m \in {n \in MemsOf(p) : Paged(p, n)},
            f \in {"page_size", "num_pages"}}

\* the fields of the memories getavr(name) of swigtest reads through
\* avrmem_to_dict and prints in the memory overview of part p
getavr(p) ==
    {[part |-> p, mem |-> m, field |-> f] :
        m \in MemsOf(p),
        f \in {"desc", "size", "paged", "page_size", "num_pages"}}

\* the condition of lines 806, 898 and 912
AttachReady(po, p, d) == po # "set_this" /\ p # None /\ d # None

\* the code of adgui.__init__ up to load_settings, for the settings file s
GuiInit ==
    /\ running = TRUE
    /\ initialized \in BOOLEAN
    /\ connected = FALSE
    /\ flash_size = 0
    /\ eeprom_size = 0
    /\ buffers = [buffer |-> "unset", ee_buffer |-> "unset"]
    /\ FilesInit
    /\ \E d \in Parts \cup {None}, p \in Programmers \cup {None},
          po \in Ports \cup {None} :
          /\ (p = None) <=> (po = None)
          /\ dev = (IF initialized THEN d ELSE None)
          /\ dev_selected = dev
          /\ pgm = (IF initialized THEN p ELSE None)
          /\ prog_selected = pgm
          /\ port = (IF initialized THEN po ELSE None)
    /\ devcfg = (IF dev # None THEN ConfigTable(dev) ELSE <<>>)
    /\ fuselabels = (IF dev # None THEN enable_fuses(dev, <<>>) ELSE <<>>)
    /\ defined = (IF dev # None
                  THEN {"devcfg"} \cup (IF Len(fuse_names(dev)) > 0
                                        THEN {"fuselabels"} ELSE {})
                  ELSE {})
    /\ ui = [UiInit EXCEPT !.actionAttach = AttachReady(port, pgm, dev) /\ initialized]
    /\ report = (IF dev # None THEN update_device_info(dev) ELSE {})

\* the adgui attributes while another front end runs
GuiIdle ==
    /\ running = FALSE
    /\ initialized = FALSE
    /\ connected = FALSE
    /\ flash_size = 0
    /\ eeprom_size = 0
    /\ buffers = [buffer |-> "unset", ee_buffer |-> "unset"]
    /\ FilesInit
    /\ dev = None /\ dev_selected = None
    /\ pgm = None /\ prog_selected = None
    /\ port = None
    /\ devcfg = <<>>
    /\ fuselabels = <<>>
    /\ defined = {}
    /\ ui = UiInit
    /\ report = {}

\* the codec harness while another front end runs
CodecIdle ==
    /\ codec_config = <<>>
    /\ codec_fuse = STR_lfuse
    /\ codec_val = 255
    /\ codec_vallist = <<>>
    /\ codec_op = "none"
    /\ codec_sw = [val |-> 255, vallist |-> <<>>]

\* ------------------------------------------- tools/scripts_decoder.py: data

\* the number of script elements of the XML files of the model
MaxScripts == 3

\* c_dict: the names of the functions the generated table has a field for
c_dict ==
    {
      <<"E", "n", "t", "e", "r", "P", "r", "o", "g", "M", "o", "d", "e">>,
      <<"E", "n", "t", "e", "r", "P", "r", "o", "g", "M", "o", "d", "e", "H", "v", "S", "p">>,
      <<"E", "n", "t", "e", "r", "P", "r", "o", "g", "M", "o", "d", "e", "H", "v", "S", "p", "R", "s", "t">>,
      <<"E", "n", "t", "e", "r", "P", "r", "o", "g", "M", "o", "d", "e", "H", "v", "U", "p", "t">>,
      <<"E", "x", "i", "t", "P", "r", "o", "g", "M", "o", "d", "e">>,
      <<"S", "e", "t", "S", "p", "e", "e", "d">>,
      <<"G", "e", "t", "D", "e", "v", "i", "c", "e", "I", "D">>,
      <<"E", "r", "a", "s", "e", "C", "h", "i", "p">>,
      <<"W", "r", "i", "t", "e", "P", "r", "o", "g", "m", "e", "m">>,
      <<"R", "e", "a", "d", "P", "r", "o", "g", "m", "e", "m">>,
      <<"W", "r", "i", "t", "e", "D", "a", "t", "a", "E", "E", "m", "e", "m">>,
      <<"R", "e", "a", "d", "D", "a", "t", "a", "E", "E", "m", "e", "m">>,
      <<"W", "r", "i", "t", "e", "C", "S", "r", "e", "g">>,
      <<"R", "e", "a", "d", "C", "S", "r", "e", "g">>,
      <<"W", "r", "i", "t", "e", "M", "e", "m", "8">>,
      <<"R", "e", "a", "d", "M", "e", "m", "8">>,
      <<"W", "r", "i", "t", "e", "C", "o", "n", "f", "i", "g", "m", "e", "m">>,
      <<"R", "e", "a", "d", "C", "o", "n", "f", "i", "g", "m", "e", "m">>,
      <<"R", "e", "a", "d", "S", "I", "B">> }

STR_UPDI          == <<"U", "P", "D", "I">>
STR_SetSpeed_UPDI == <<"S", "e", "t", "S", "p", "e", "e", "d", "_", "U", "P", "D", "I">>
STR_ReadSIB_UPDI  == <<"R", "e", "a", "d", "S", "I", "B", "_", "U", "P", "D", "I">>
STR_Run_UPDI      == <<"R", "u", "n", "_", "U", "P", "D", "I">>
STR_SetSpeed_PDI  == <<"S", "e", "t", "S", "p", "e", "e", "d", "_", "P", "D", "I">>
STR_ATtiny202     == <<"A", "T", "t", "i", "n", "y", "2", "0", "2">>
STR_AVR32DA28     == <<"A", "V", "R", "3", "2", "D", "A", "2", "8">>
STR_AVR128DA28    == <<"A", "V", "R", "1", "2", "8", "D", "A", "2", "8">>
STR_ATmega8       == <<"A", "T", "m", "e", "g", "a", "8">>

\* the chips of the XML files of the model
Chips == {STR_ATtiny202, STR_AVR32DA28, STR_AVR128DA28}

\* a script element: script[0].text, script[1].text and the bytes of script[3]
Script(function, chip, bytes) ==
    [function |-> function, chip |-> chip, bytes |-> bytes]

\* the script elements of the XML files of the model: SetSpeed and ReadSIB for
\* UPDI for every chip, a function that is not in c_dict and a function of
\* another interface
ScriptPool ==
    { Script(STR_SetSpeed_UPDI, c, b) : c \in Chips, b \in {<<1>>, <<2>>} }
    \cup { Script(STR_ReadSIB_UPDI, c, <<3>>) : c \in Chips }
    \cup { Script(STR_Run_UPDI, STR_ATtiny202, <<4>>),
           Script(STR_SetSpeed_PDI, STR_ATtiny202, <<5>>) }

\* origin_root.findall('script') of the XML files of the model
Xmls == SeqsUpTo(ScriptPool, MaxScripts)

\* the part names get_pickit_script is called with
Partdescs == Chips \cup {STR_ATmega8}

\* a Python dict as the sequence of its (key, value) pairs in insertion order
DictHas(d, k) == \E n \in 1..Len(d) : d[n][1] = k

\* d[k]
DictGet(d, k) == d[CHOOSE n \in 1..Len(d) : d[n][1] = k][2]

\* d[k] = v
DictPut(d, k, v) ==
    IF DictHas(d, k)
    THEN [n \in 1..Len(d) |-> IF d[n][1] = k THEN <<k, v>> ELSE d[n]]
    ELSE Append(d, <<k, v>>)

\* the keys of d in iteration order
DictKeys(d) == [n \in 1..Len(d) |-> d[n][1]]

\* a field of struct avr_script_lut and its _len field: array is the number n
\* of the array func_n it points to, or -1 for NULL
ScriptField(array, len) == [array |-> array, len |-> len]

\* scripts_decoder.py was not started
DecoderIdle ==
    decoder = [pos |-> "idle", xml |-> <<>>, scripts |-> <<>>,
               mcu_dict |-> <<>>, func_dict |-> <<>>,
               avr_scripts |-> [f \in c_dict |-> ScriptField(-1, 0)],
               partdesc |-> <<>>, ret |-> "none"]

\* the start-up of adgui.py is not followed while a front end runs
ToolIdle ==
    /\ conf = [os |-> "posix", dirs |-> {}, files |-> {}, builddir |-> None,
               pos |-> "idle", reads |-> <<>>, result |-> None]
    /\ DecoderIdle

\* swigtest's names before any call
SwInit ==
    /\ sw_p = "Path"
    /\ sw_held = {}

\* ---------------------------------------------------------- adgui handlers

\* the dialogs and menus work while the event loop runs and avrdude_init succeeded
GuiUp == program = "adgui" /\ running /\ initialized

\* device_selected(): the device dialog was accepted with part d
device_selected(d) ==
    /\ GuiUp
    /\ dev_selected' = d
    /\ dev' = d
    /\ fuselabels' = enable_fuses(d, fuselabels)
    /\ devcfg' = ConfigTable(d)
    /\ defined' = defined \cup {"devcfg"}
                    \cup (IF Len(fuse_names(d)) > 0 THEN {"fuselabels"} ELSE {})
    /\ ui' = [ui EXCEPT !.actionAttach = @ \/ AttachReady(port, prog_selected, d)]
    /\ report' = update_device_info(d)
    /\ calls' = <<>>
    /\ UNCHANGED <<program, tool_vars, codec_vars, running, initialized, port, pgm,
                   prog_selected, connected, flash_size, eeprom_size,
                   lib, sw_vars, buffers, file_vars>>

\* programmer_selected(): the programmer dialog was accepted with programmer n
\* and the port entry po
programmer_selected(n, po) ==
    /\ GuiUp
    /\ prog_selected' = n
    /\ pgm' = n
    /\ port' = po
    /\ ui' = [ui EXCEPT !.actionAttach = @ \/ AttachReady(po, n, dev_selected)]
    /\ calls' = <<>>
    /\ UNCHANGED <<program, tool_vars, codec_vars, running, initialized, dev, dev_selected,
                   connected, flash_size, eeprom_size, devcfg, fuselabels,
                   defined, lib, sw_vars, mem_vars>>

\* start_programmer(): File -> Attach Programmer, pgm.open returning rv
start_programmer(rv) ==
    /\ GuiUp
    /\ ui.actionAttach
    /\ IF connected
       THEN /\ calls' = <<>>
            /\ UNCHANGED <<lib, ui, connected, defined>>
       ELSE LET s1 == LibCall(Handler, pgm, "initpgm", None, NoMem, connected)
                s2 == LibCall(s1, pgm, "setup", None, NoMem, connected)
                s3 == LibCall(s2, pgm, OpenCall(rv), None, NoMem, connected)
                s4 == LibCall(s3, pgm, "enable", dev, NoMem, connected)
                s5 == LibCall(s4, pgm, "initialize", dev, NoMem, connected)
            IN  IF rv = -1
                THEN /\ lib' = s3.lib
                     /\ calls' = s3.calls
                     /\ UNCHANGED <<ui, connected, defined>>
                ELSE /\ lib' = s5.lib
                     /\ calls' = s5.calls
                     /\ ui' = [ui EXCEPT !.actionProgramming = TRUE,
                                         !.actionAttach = FALSE,
                                         !.actionDetach = TRUE]
                     /\ connected' = TRUE
                     /\ defined' = defined \cup {"fuses_warned"}
    /\ UNCHANGED <<program, tool_vars, codec_vars, running, initialized, port, pgm,
                   prog_selected, dev, dev_selected, flash_size, eeprom_size,
                   devcfg, fuselabels, sw_vars, mem_vars>>

\* the body of stop_programmer(): what it leaves in lib, calls, ui, connected
StopBody ==
    IF connected
    THEN LET s1 == LibCall(Handler, pgm, "disable", None, NoMem, connected)
             s2 == LibCall(s1, pgm, "close", None, NoMem, connected)
             s3 == LibCall(s2, pgm, "teardown", None, NoMem, connected)
         IN  /\ lib' = s3.lib
             /\ calls' = s3.calls
             /\ ui' = [ui EXCEPT !.actionAttach = TRUE,
                                 !.actionDetach = FALSE,
                                 !.actionProgramming = FALSE]
             /\ connected' = FALSE
    ELSE /\ calls' = <<>>
         /\ UNCHANGED <<lib, ui, connected>>

\* stop_programmer(): File -> Detach Programmer
stop_programmer ==
    /\ GuiUp
    /\ ui.actionDetach
    /\ StopBody
    /\ UNCHANGED <<program, tool_vars, codec_vars, running, initialized, port, pgm,
                   prog_selected, dev, dev_selected, flash_size, eeprom_size,
                   devcfg, fuselabels, defined, sw_vars, mem_vars>>

\* cleanup(): the last window was closed; the event loop ends
cleanup ==
    /\ program = "adgui"
    /\ running
    /\ StopBody
    /\ running' = FALSE
    /\ UNCHANGED <<program, tool_vars, codec_vars, initialized, port, pgm, prog_selected,
                   dev, dev_selected, flash_size, eeprom_size, devcfg,
                   fuselabels, defined, sw_vars, mem_vars>>

\* Device -> Programming: memories.show()
show_memories ==
    /\ GuiUp
    /\ ui.actionProgramming
    /\ ~ui.memories
    /\ ui' = [ui EXCEPT !.memories = TRUE]
    /\ calls' = <<>>
    /\ UNCHANGED <<program, tool_vars, codec_vars, running, initialized, port, pgm,
                   prog_selected, dev, dev_selected, connected, flash_size,
                   eeprom_size, devcfg, fuselabels, defined, lib,
                   sw_vars, mem_vars>>

\* the user closes the memories window
close_memories ==
    /\ GuiUp
    /\ ui.memories
    /\ ui' = [ui EXCEPT !.memories = FALSE]
    /\ calls' = <<>>
    /\ UNCHANGED <<program, tool_vars, codec_vars, running, initialized, port, pgm,
                   prog_selected, dev, dev_selected, connected, flash_size,
                   eeprom_size, devcfg, fuselabels, defined, lib,
                   sw_vars, mem_vars>>

\* the value avr_read_mem returns for memory mem of part d: the size of the
\* memory when the read went well (ok), -1 when it failed
ReadResult(d, mem, ok) == IF ok THEN MemSize(d, mem) ELSE -1

\* read_signature(): the Read button of the Signature tab
read_signature ==
    /\ GuiUp
    /\ ui.memories
    /\ IF connected /\ HasMem(dev, STR_signature)
       THEN LET s1 == LibCall(Handler, pgm, "avr_read_mem", dev, STR_signature,
                              connected)
            IN  /\ lib' = s1.lib
                /\ calls' = s1.calls
                /\ ui' = [ui EXCEPT !.tabs = TRUE]
       ELSE /\ calls' = <<>>
            /\ UNCHANGED <<lib, ui>>
    /\ UNCHANGED <<program, tool_vars, codec_vars, running, initialized, port, pgm,
                   prog_selected, dev, dev_selected, connected, flash_size,
                   eeprom_size, devcfg, fuselabels, defined, sw_vars, mem_vars>>

\* the buttons of the flash and EEPROM tabs can be pressed
TabsUp == GuiUp /\ ui.memories /\ ui.tabs

\* a call of the handler on no programmer: ad.fileio, a message box question,
\* an error of the log, an exception that ends the handler
FileCall(call, file, fmt, mem, len, rv) ==
    [pgm |-> None, call |-> call, prev |-> "none", part |-> dev, mem |-> mem,
     conn |-> connected, fmt |-> fmt, file |-> file, len |-> len, rv |-> rv]

\* QMessageBox.question(..., "Overwrite {fname}?", ...)
Question(fname) == FileCall("question", fname, None, NoMem, 0, 0)

\* self.log(..., ad.MSG_ERROR)
LogError == FileCall("log_error", NoMem, None, NoMem, 0, 0)

\* self.log(..., ad.MSG_WARNING)
LogWarning == FileCall("log_warning", NoMem, None, NoMem, 0, 0)

\* an exception of the given class leaves the handler
Raise(class) == FileCall(class, NoMem, None, NoMem, 0, 0)

\* flash_read(): the Read button of the flash tab, avr_read_mem going well
\* (ok) or failing
flash_read(ok) ==
    /\ TabsUp
    /\ IF ~HasMem(dev, STR_flash)
       THEN /\ calls' = <<>>
            /\ UNCHANGED <<lib, flash_size, buffers>>
       ELSE LET s1 == LibCall(Handler, pgm, "avr_read_mem", dev, STR_flash,
                              connected)
                amnt == ReadResult(dev, STR_flash, ok)
            IN  /\ lib' = s1.lib
                /\ calls' = s1.calls
                /\ flash_size' = amnt
                /\ buffers' = IF amnt > 0
                              THEN [buffers EXCEPT !.buffer = "full"]
                              ELSE buffers
    /\ UNCHANGED <<program, tool_vars, codec_vars, running, initialized, port, pgm,
                   prog_selected, dev, dev_selected, connected, eeprom_size,
                   devcfg, fuselabels, defined, ui, sw_vars, file_vars,
                   report>>

\* the calls of flash_write() and eeprom_write() on memory mem, sized
\* telling whether the size attribute exists and size being its value
WriteCalls(mem, sized, size) ==
    IF ~HasMem(dev, mem) THEN [lib |-> lib, calls |-> <<LogError>>]
    ELSE IF ~sized THEN [lib |-> lib, calls |-> <<Raise("AttributeError")>>]
    ELSE IF size = 0 THEN [lib |-> lib, calls |-> <<LogWarning>>]
    ELSE LET s1 == LibCall(Handler, pgm, "avr_write_mem", dev, mem, connected)
         IN  [lib |-> s1.lib, calls |-> <<[s1.calls[1] EXCEPT !.len = size]>>]

\* flash_write(): the Program button of the flash tab
flash_write ==
    /\ TabsUp
    /\ lib' = WriteCalls(STR_flash, TRUE, flash_size).lib
    /\ calls' = WriteCalls(STR_flash, TRUE, flash_size).calls
    /\ UNCHANGED <<program, tool_vars, codec_vars, gui_vars, sw_vars>>

\* eeprom_read(): the Read button of the EEPROM tab, avr_read_mem going well
\* (ok) or failing
eeprom_read(ok) ==
    /\ TabsUp
    /\ IF ~HasMem(dev, STR_eeprom)
       THEN /\ calls' = <<>>
            /\ UNCHANGED <<lib, eeprom_size, defined, buffers>>
       ELSE LET s1 == LibCall(Handler, pgm, "avr_read_mem", dev, STR_eeprom,
                              connected)
                amnt == ReadResult(dev, STR_eeprom, ok)
            IN  /\ lib' = s1.lib
                /\ calls' = s1.calls
                /\ eeprom_size' = amnt
                /\ defined' = defined \cup {"eeprom_size"}
                /\ buffers' = IF amnt > 0
                              THEN [buffers EXCEPT !.ee_buffer = "full"]
                              ELSE buffers
    /\ UNCHANGED <<program, tool_vars, codec_vars, running, initialized, port, pgm,
                   prog_selected, dev, dev_selected, connected, flash_size,
                   devcfg, fuselabels, ui, sw_vars, file_vars,
                   report>>

\* eeprom_write(): the Program button of the EEPROM tab; reading
\* self.eeprom_size before it was ever set raises AttributeError, which ends
\* the handler
eeprom_write ==
    /\ TabsUp
    /\ lib' = WriteCalls(STR_eeprom, "eeprom_size" \in defined, eeprom_size).lib
    /\ calls' = WriteCalls(STR_eeprom, "eeprom_size" \in defined,
                           eeprom_size).calls
    /\ UNCHANGED <<program, tool_vars, codec_vars, gui_vars, sw_vars>>

\* the calls of chip_erase() once the user said yes: pgm.chip_erase
\* returning result, and the warning of a failure
EraseCalls(result) ==
    LET s1 == LibCall(Handler, pgm, "chip_erase", dev, NoMem, connected)
    IN  [lib   |-> s1.lib,
         calls |-> <<[s1.calls[1] EXCEPT !.rv = result]>>
                   \o (IF result = 0 THEN <<>> ELSE <<LogWarning>>)]

\* chip_erase() taking every return value of pgm.chip_erase for a success
chip_erase_ignore(yes, result) ==
    /\ TabsUp
    /\ IF ~yes
       THEN /\ calls' = <<>>
            /\ UNCHANGED <<lib, flash_size, buffers>>
       ELSE /\ lib' = EraseCalls(result).lib
            /\ calls' = EraseCalls(result).calls
            /\ flash_size' = 0
            /\ buffers' = [buffers EXCEPT !.buffer = "empty"]
    /\ UNCHANGED <<program, tool_vars, codec_vars, running, initialized, port, pgm,
                   prog_selected, dev, dev_selected, connected, eeprom_size,
                   devcfg, fuselabels, defined, ui, sw_vars, file_vars,
                   report>>

\* chip_erase(): the Erase button of the flash tab, the user answering the
\* question with yes, pgm.chip_erase returning result
chip_erase(yes, result) ==
    /\ TabsUp
    /\ IF ~yes
       THEN /\ calls' = <<>>
            /\ UNCHANGED <<lib, flash_size, buffers>>
       ELSE /\ lib' = EraseCalls(result).lib
            /\ calls' = EraseCalls(result).calls
            /\ IF result = 0
               THEN /\ flash_size' = 0
                    /\ buffers' = [buffers EXCEPT !.buffer = "empty"]
               ELSE UNCHANGED <<flash_size, buffers>>
    /\ UNCHANGED <<program, tool_vars, codec_vars, running, initialized, port, pgm,
                   prog_selected, dev, dev_selected, connected, eeprom_size,
                   devcfg, fuselabels, defined, ui, sw_vars, file_vars,
                   report>>

\* m.clear(m.size) on memory mem of part d: a call on the memory, on no
\* programmer
ClearCall(d, mem, conn) ==
    [pgm |-> None, call |-> "clear", prev |-> "none", part |-> d, mem |-> mem,
     conn |-> conn, fmt |-> None, file |-> NoMem, len |-> 0, rv |-> 0]

\* clear_buffer(): the slot of the Clear button of the flash tab. The class
\* defines the name twice; the bound method is the later definition.
clear_buffer ==
    /\ TabsUp
    /\ IF ~HasMem(dev, STR_eeprom)
       THEN /\ calls' = <<>>
            /\ UNCHANGED <<eeprom_size, defined, buffers>>
       ELSE /\ calls' = <<ClearCall(dev, STR_eeprom, connected)>>
            /\ eeprom_size' = 0
            /\ defined' = defined \cup {"eeprom_size"}
            /\ buffers' = [buffers EXCEPT !.ee_buffer = "empty"]
    /\ UNCHANGED <<program, tool_vars, codec_vars, running, initialized, port, pgm,
                   prog_selected, dev, dev_selected, connected, flash_size,
                   devcfg, fuselabels, ui, lib, sw_vars, file_vars,
                   report>>

\* ------------------------------------------- adgui handlers: file lines

\* s.endswith(suf)
EndsWith(s, suf) ==
    Len(s) >= Len(suf) /\ SubSeq(s, Len(s) - Len(suf) + 1, Len(s)) = suf

\* the suffixes detect_*_file knows
EXT_hex  == <<".", "h", "e", "x">>
EXT_ihex == <<".", "i", "h", "e", "x">>
EXT_eep  == <<".", "e", "e", "p">>
EXT_srec == <<".", "s", "r", "e", "c">>
EXT_bin  == <<".", "b", "i", "n">>

\* the texts a user leaves in the file line of the flash and EEPROM tabs:
\* nothing, a.hex, a.ihex, a.eep, a.srec, a.bin and a.elf
FileTexts ==
    { <<>>,
      <<"a">> \o EXT_hex, <<"a">> \o EXT_ihex, <<"a">> \o EXT_eep,
      <<"a">> \o EXT_srec, <<"a">> \o EXT_bin,
      <<"a", ".", "e", "l", "f">> }

\* the texts a user leaves in the file line of the fuses tab: nothing, a.hex,
\* a.elf, %.hex and f%.%.bin
FuseTexts ==
    { <<>>,
      <<"a">> \o EXT_hex, <<"a", ".", "e", "l", "f">>,
      <<"%">> \o EXT_hex, <<"f", "%", ".", "%">> \o EXT_bin }

\* what ad.fileio_fmt_autodetect can return
Detected == {"FMT_ELF", "FMT_IHEX", "FMT_SREC", "FMT_ERROR"}

\* the format constant of a radio button
FMT(radio) ==
    CASE radio = "Auto" -> "FMT_AUTO"
      [] radio = "ELF"  -> "FMT_ELF"
      [] radio = "Ihex" -> "FMT_IHEX"
      [] radio = "Srec" -> "FMT_SREC"
      [] radio = "Rbin" -> "FMT_RBIN"

\* the radio button checked after the file exists branch of detect_*_file
DetectedFormat(fmt, old) ==
    CASE fmt = "FMT_ELF"  -> "ELF"
      [] fmt = "FMT_IHEX" -> "Ihex"
      [] fmt = "FMT_SREC" -> "Srec"
      [] OTHER -> old

\* the radio button checked after the suffix branch of detect_*_file
SuffixFormat(fname, old) ==
    IF EndsWith(fname, EXT_hex) \/ EndsWith(fname, EXT_ihex)
       \/ EndsWith(fname, EXT_eep)
    THEN "Ihex"
    ELSE IF EndsWith(fname, EXT_srec) THEN "Srec"
    ELSE IF EndsWith(fname, EXT_bin) THEN "Rbin"
    ELSE old

\* the if p.is_file() statement falling back to the suffix of an existing
\* file that the autodetection does not know
DetectOne_fallback(fname, isfile, fmt, old) ==
    IF isfile /\ fmt \in {"FMT_ELF", "FMT_IHEX", "FMT_SREC"}
    THEN DetectedFormat(fmt, old)
    ELSE SuffixFormat(fname, old)

\* the radio button checked after the if p.is_file() statement for one name
DetectOne(fname, isfile, fmt, old) ==
    IF isfile THEN DetectedFormat(fmt, old) ELSE SuffixFormat(fname, old)

\* the user checks a format radio button of tab t
select_format(t, radio) ==
    /\ TabsUp
    /\ ff' = [ff EXCEPT ![t] = radio]
    /\ calls' = <<>>
    /\ UNCHANGED <<program, tool_vars, codec_vars, running, initialized, port, pgm,
                   prog_selected, dev, dev_selected, connected, flash_size,
                   eeprom_size, devcfg, fuselabels, defined, ui, buffers,
                   file_tab, fnames, fbuttons, fval, lib, sw_vars, report>>

\* detect_flash_file() and detect_eeprom_file(): editing of the file line of
\* tab t finished with text in it; attr is the attribute that keeps the
\* name, isfile and fmt what is_file() and the autodetection answer
DetectFile(t, attr, text, isfile, fmt) ==
    /\ TabsUp
    /\ defined' = defined \cup {attr}
    /\ fnames' = [fnames EXCEPT ![t] = text]
    /\ fbuttons' = [fbuttons EXCEPT ![t] = Len(text) > 0]
    /\ ff' = IF Len(text) > 0
             THEN [ff EXCEPT ![t] = DetectOne(text, isfile, fmt, @)]
             ELSE ff
    /\ calls' = <<>>
    /\ UNCHANGED <<program, tool_vars, codec_vars, running, initialized, port, pgm,
                   prog_selected, dev, dev_selected, connected, flash_size,
                   eeprom_size, devcfg, fuselabels, ui, buffers, file_tab,
                   fval, lib, sw_vars, report>>

\* detect_flash_file()
detect_flash_file(text, isfile, fmt) ==
    DetectFile("flash", "flashname", text, isfile, fmt)

\* detect_eeprom_file()
detect_eeprom_file(text, isfile, fmt) ==
    DetectFile("eeprom", "eepromname", text, isfile, fmt)

\* the alias of memory fuse0 of the AVR-Dx parts
STR_wdtcfg == <<"w", "d", "t", "c", "f", "g">>

\* find_mem_alias(p, name): the alias the library has for a memory of the
\* part, or the name itself
find_mem_alias(p, name) ==
    IF p = "AVR32DA28" /\ name = STR_fuse0 THEN STR_wdtcfg
    ELSE IF p = "AVR32DA28" /\ name = STR_fuse1 THEN STR_bodcfg
    ELSE name

\* fuse_filename(fuse) putting the alias of the fuse in place of '%'
fuse_filename_alias(fname, fuse) ==
    IF Len(fname) = 0 THEN <<>>
    ELSE LET percentpos == Find(fname, <<"%">>)
         IN  IF percentpos # -1
             THEN SubSeq(fname, 1, percentpos) \o find_mem_alias(dev, fuse)
                  \o SubSeq(fname, percentpos + 2, Len(fname))
             ELSE fname

\* fuse_filename(fuse) for self.fusename = fname (the empty name stands for
\* None and for '')
fuse_filename(fname, fuse) ==
    IF Len(fname) = 0 THEN <<>>
    ELSE LET percentpos == Find(fname, <<"%">>)
         IN  IF percentpos # -1
             THEN SubSeq(fname, 1, percentpos) \o fuse
                  \o SubSeq(fname, percentpos + 2, Len(fname))
             ELSE fname

RECURSIVE DetectFuses(_, _, _, _, _, _)
\* the loop of detect_fuses_file over the keys of self.fuselabels from key k
\* on: the radio button checked in the end; files is the set of the files
\* that exist
DetectFuses(labels, fname, files, fmt, k, radio) ==
    IF k > Len(labels) THEN radio
    ELSE DetectFuses(labels, fname, files, fmt, k + 1,
             DetectOne(fuse_filename(fname, labels[k].name),
                       fuse_filename(fname, labels[k].name) \in files,
                       fmt, radio))

\* detect_fuses_file(): editing of the file line of the fuses tab finished
\* (without self.fuselabels the loop raises AttributeError after the name
\* was kept and the buttons were enabled)
detect_fuses_file(text, files, fmt) ==
    /\ TabsUp
    /\ defined' = defined \cup {"fusename"}
    /\ fnames' = [fnames EXCEPT !["fuses"] = text]
    /\ fbuttons' = [fbuttons EXCEPT !["fuses"] = Len(text) > 0]
    /\ ff' = IF Len(text) > 0 /\ "fuselabels" \in defined
             THEN [ff EXCEPT !["fuses"] =
                      DetectFuses(fuselabels, text, files, fmt, 1, @)]
             ELSE ff
    /\ calls' = <<>>
    /\ UNCHANGED <<program, tool_vars, codec_vars, running, initialized, port, pgm,
                   prog_selected, dev, dev_selected, connected, flash_size,
                   eeprom_size, devcfg, fuselabels, ui, buffers, file_tab,
                   fval, lib, sw_vars, report>>

\* the calls of flash_save and eeprom_save silently writing Intel hex when
\* Auto or ELF is checked
SaveCalls_default(t, mem, sized, size, isfile, yes, ok) ==
    LET fmt   == IF ff[t] \in {"Auto", "ELF"} THEN "FMT_IHEX" ELSE FMT(ff[t])
        fname == fnames[t]
        amnt  == IF size # 0 THEN size ELSE -1
    IN  (IF isfile THEN <<Question(fname)>> ELSE <<>>)
        \o (IF isfile /\ ~yes THEN <<>>
            ELSE <<FileCall("fileio_write", fname, fmt, mem, amnt,
                            IF ok THEN MemSize(dev, mem) ELSE -1)>>)

\* the calls of flash_save and eeprom_save for tab t and memory mem: sized
\* tells whether the size attribute exists, size is its value, isfile and yes
\* what is_file() and the user answer, ok whether ad.fileio goes well
SaveCalls(t, mem, sized, size, isfile, yes, ok) ==
    IF ff[t] \in {"Auto", "ELF"} THEN <<LogError>>
    ELSE LET fmt   == FMT(ff[t])
             fname == fnames[t]
             amnt  == IF size # 0 THEN size ELSE -1
         IN  (IF isfile THEN <<Question(fname)>> ELSE <<>>)
             \o (IF isfile /\ ~yes THEN <<>>
                 ELSE IF ~sized THEN <<Raise("AttributeError")>>
                 ELSE <<FileCall("fileio_write", fname, fmt, mem, amnt,
                                 IF ok THEN MemSize(dev, mem) ELSE -1)>>)

\* what the save and load handlers leave alone besides the log
SaveUnchanged ==
    UNCHANGED <<program, tool_vars, codec_vars, running, initialized, port, pgm,
                prog_selected, dev, dev_selected, connected, flash_size,
                eeprom_size, devcfg, fuselabels, defined, ui, buffers,
                file_vars, lib, sw_vars, report>>

\* flash_save(): the Save button of the flash tab
flash_save(isfile, yes, ok) ==
    /\ TabsUp
    /\ fbuttons["flash"]
    /\ calls' = SaveCalls("flash", STR_flash, TRUE, flash_size, isfile, yes, ok)
    /\ SaveUnchanged

\* eeprom_save(): the Save button of the EEPROM tab
eeprom_save(isfile, yes, ok) ==
    /\ TabsUp
    /\ fbuttons["eeprom"]
    /\ calls' = SaveCalls("eeprom", STR_eeprom, "eeprom_size" \in defined,
                          eeprom_size, isfile, yes, ok)
    /\ SaveUnchanged

RECURSIVE FusesSaveLoop(_, _, _, _, _, _, _)
\* the loop of fuses_save over the keys of self.fuselabels from key k on:
\* the calls it makes; files is the set of the files that exist
FusesSaveLoop(labels, fname, fmt, files, yes, ok, k) ==
    IF k > Len(labels) THEN <<>>
    ELSE LET fuse == labels[k].name
             file == fuse_filename(fname, fuse)
             rest == FusesSaveLoop(labels, fname, fmt, files, yes, ok, k + 1)
         IN  IF ~labels[k].allocated THEN rest
             ELSE (IF file \in files THEN <<Question(file)>> ELSE <<>>)
                  \o (IF file \in files /\ ~yes THEN <<>>
                      ELSE <<FileCall("fileio_write", file, fmt, fuse,
                                      MemSize(dev, fuse),
                                      IF ok THEN MemSize(dev, fuse) ELSE -1)>>)
                  \o rest

\* fuses_save(): the Save button of the fuses tab
fuses_save(files, yes, ok) ==
    /\ TabsUp
    /\ fbuttons["fuses"]
    /\ calls' = IF ff["fuses"] \in {"Auto", "ELF"} THEN <<LogError>>
                ELSE IF "fuselabels" \notin defined
                THEN <<Raise("AttributeError")>>
                ELSE FusesSaveLoop(fuselabels, fnames["fuses"],
                                   FMT(ff["fuses"]), files, yes, ok, 1)
    /\ SaveUnchanged

\* flash_load(): the Load button of the flash tab, ad.fileio going well (ok)
\* or failing
flash_load(ok) ==
    /\ TabsUp
    /\ fbuttons["flash"]
    /\ LET amnt == ReadResult(dev, STR_flash, ok)
       IN  /\ calls' = <<FileCall("fileio_read", fnames["flash"],
                                  FMT(ff["flash"]), STR_flash, -1, amnt)>>
           /\ flash_size' = amnt
           /\ buffers' = IF amnt > 0 THEN [buffers EXCEPT !.buffer = "full"]
                         ELSE buffers
    /\ UNCHANGED <<program, tool_vars, codec_vars, running, initialized, port,
                   pgm, prog_selected, dev, dev_selected, connected,
                   eeprom_size, devcfg, fuselabels, defined, ui, file_vars,
                   lib, sw_vars, report>>

\* eeprom_load(): the Load button of the EEPROM tab
eeprom_load(ok) ==
    /\ TabsUp
    /\ fbuttons["eeprom"]
    /\ LET amnt == ReadResult(dev, STR_eeprom, ok)
       IN  /\ calls' = <<FileCall("fileio_read", fnames["eeprom"],
                                  FMT(ff["eeprom"]), STR_eeprom, -1, amnt)>>
           /\ eeprom_size' = amnt
           /\ defined' = defined \cup {"eeprom_size"}
           /\ buffers' = IF amnt > 0 THEN [buffers EXCEPT !.ee_buffer = "full"]
                         ELSE buffers
    /\ UNCHANGED <<program, tool_vars, codec_vars, running, initialized, port,
                   pgm, prog_selected, dev, dev_selected, connected,
                   flash_size, devcfg, fuselabels, ui, file_vars, lib, sw_vars,
                   report>>

\* the digits of f"{n:X}"
HexChar == <<"0", "1", "2", "3", "4", "5", "6", "7", "8", "9",
             "A", "B", "C", "D", "E", "F">>

\* f"{val:02X}" for a byte
Hex2(val) == <<HexChar[(val \div 16) + 1], HexChar[(val % 16) + 1]>>

\* the value a fuse file holds (0xC9)
FuseVals == {201}

\* the state of fuses_load: the fuse labels, the line edits and the calls
LoadOne(st, k, file, fmt, amnt, val) ==
    LET fuse == st.labels[k].name
        call == FileCall("fileio_read", file, fmt, fuse, -1, amnt)
    IN  IF amnt > 0
        THEN [labels |-> [st.labels EXCEPT ![k].allocated = TRUE],
              fval   |-> [st.fval EXCEPT ![st.labels[k].idx + 1] = Hex2(val)],
              calls  |-> Append(st.calls, call)]
        ELSE [st EXCEPT !.calls = Append(@, call)]

RECURSIVE LoadAll(_, _, _, _, _, _)
\* the loop of fuses_load over the keys of self.fuselabels from key k on;
\* files is the set of fuses ad.fileio can read
LoadAll(st, fname, fmt, files, val, k) ==
    IF k > Len(st.labels) THEN st
    ELSE LoadAll(LoadOne(st, k, fuse_filename(fname, st.labels[k].name), fmt,
                         IF st.labels[k].name \in files THEN 1 ELSE -1, val),
                 fname, fmt, files, val, k + 1)

\* fuses_load(): the Load button of the fuses tab. isfile is what is_file()
\* answers for a name without '%', picked the key the user picks in the fuse
\* dialog (0 when the dialog is cancelled), files the set of fuses ad.fileio
\* can read, val the byte read
fuses_load(isfile, picked, files, val) ==
    /\ TabsUp
    /\ fbuttons["fuses"]
    /\ "fuselabels" \in defined
    /\ picked \in 0..Len(fuselabels)
    /\ LET fname == fnames["fuses"]
           radio == FMT(ff["fuses"])
           st0   == [labels |-> fuselabels, fval |-> fval, calls |-> <<>>]
           st    ==
               IF Find(fname, <<"%">>) = -1 /\ isfile
               THEN IF radio = "FMT_AUTO"
                    THEN [st0 EXCEPT !.calls = <<Raise("UnboundLocalError")>>]
                    ELSE IF radio = "FMT_ELF"
                    THEN LoadAll(st0, fname, radio, files, val, 1)
                    ELSE IF picked = 0 THEN st0
                    ELSE LoadOne(st0, picked, fname, radio,
                                 IF fuselabels[picked].name \in files
                                 THEN 1 ELSE -1, val)
               ELSE LoadAll(st0, fname, radio,
                            IF Find(fname, <<"%">>) = -1 THEN {} ELSE files,
                            val, 1)
       IN  /\ fuselabels' = st.labels
           /\ fval' = st.fval
           /\ calls' = st.calls
    /\ UNCHANGED <<program, tool_vars, codec_vars, running, initialized, port, pgm,
                   prog_selected, dev, dev_selected, connected, flash_size,
                   eeprom_size, devcfg, defined, ui, buffers, file_tab, ff,
                   fnames, fbuttons, lib, sw_vars, report>>

\* ----------------------------------------- adgui handlers: fuse entries

\* t.isspace(): at least one character, all of them blanks
isspace(t) == Len(t) > 0 /\ \A k \in 1..Len(t) : t[k] = " "

\* the text without leading and trailing blanks
RECURSIVE Strip(_)
Strip(t) ==
    IF Len(t) = 0 THEN t
    ELSE IF Head(t) = " " THEN Strip(Tail(t))
    ELSE IF t[Len(t)] = " " THEN Strip(SubSeq(t, 1, Len(t) - 1))
    ELSE t

\* the hexadecimal digits int(t, 16) accepts
HexDigits ==
    [c \in {"0", "1", "2", "3", "4", "5", "6", "7", "8", "9",
            "A", "B", "C", "D", "E", "F", "a", "b", "c", "d", "e", "f"} |->
        CASE c \in {"A", "a"} -> 10 [] c \in {"B", "b"} -> 11
          [] c \in {"C", "c"} -> 12 [] c \in {"D", "d"} -> 13
          [] c \in {"E", "e"} -> 14 [] c \in {"F", "f"} -> 15
          [] OTHER -> CHOOSE n \in 0..9 : DigitChar[n + 1] = c]

RECURSIVE HexValue(_)
\* the value of a non-empty sequence of hexadecimal digits
HexValue(t) ==
    IF Len(t) = 1 THEN HexDigits[t[1]]
    ELSE 16 * HexValue(SubSeq(t, 1, Len(t) - 1)) + HexDigits[t[Len(t)]]

\* int(t, 16) for a text of blanks, a sign and digits: the integer val, or
\* ok = FALSE for ValueError
int16(t) ==
    LET u      == Strip(t)
        neg    == Len(u) > 0 /\ Head(u) = "-"
        digits == IF Len(u) > 0 /\ Head(u) \in {"-", "+"} THEN Tail(u) ELSE u
    IN  IF Len(digits) = 0
           \/ \E k \in 1..Len(digits) : digits[k] \notin DOMAIN HexDigits
        THEN [ok |-> FALSE, val |-> 0]
        ELSE [ok |-> TRUE,
              val |-> IF neg THEN 0 - HexValue(digits) ELSE HexValue(digits)]

\* the texts a user leaves in a fuse entry: nothing, a blank, zz, C9, 0, 100
\* and -1
EntryTexts ==
    { <<>>, <<" ">>, <<"z", "z">>, <<"C", "9">>, <<"0">>,
      <<"1", "0", "0">>, <<"-", "1">> }

\* m.put(val.to_bytes(1, 'little')) on fuse memory mem
PutCall(mem, val) == FileCall("put", NoMem, None, mem, 1, val)

\* the key of self.fuselabels whose slot is slotnumber, or 0
SlotKey(labels, slotnumber) ==
    IF \E k \in 1..Len(labels) : labels[k].idx = slotnumber
    THEN CHOOSE k \in 1..Len(labels) : labels[k].idx = slotnumber
    ELSE 0

\* fuseval_changed(le): editing of the fuse entry of slot slotnumber finished
\* with text t in it. check_fuse only warns the user.
fuseval_changed(slotnumber, t) ==
    /\ TabsUp
    /\ "fuselabels" \in defined
    /\ slotnumber \in 0..(NumFval - 1)
    /\ fval' = [fval EXCEPT ![slotnumber + 1] = t]
    /\ LET k == SlotKey(fuselabels, slotnumber)
       IN  IF k = 0
           THEN /\ calls' = <<Raise("NameError")>>
                /\ UNCHANGED fuselabels
           ELSE IF ~HasMem(dev, fuselabels[k].name)
           THEN /\ calls' = <<LogError>>
                /\ UNCHANGED fuselabels
           ELSE IF Len(t) = 0 \/ isspace(t)
           THEN /\ calls' = <<ClearCall(dev, fuselabels[k].name, connected)>>
                /\ fuselabels' = [fuselabels EXCEPT ![k].allocated = FALSE]
           ELSE IF ~int16(t).ok
           THEN /\ calls' = <<LogWarning>>
                /\ UNCHANGED fuselabels
           ELSE IF int16(t).val \notin 0..255
           THEN /\ calls' = <<Raise("OverflowError")>>
                /\ UNCHANGED fuselabels
           ELSE /\ calls' = <<PutCall(fuselabels[k].name, int16(t).val)>>
                /\ fuselabels' = [fuselabels EXCEPT ![k].allocated = TRUE]
    /\ UNCHANGED <<program, tool_vars, codec_vars, running, initialized, port,
                   pgm, prog_selected, dev, dev_selected, connected,
                   flash_size, eeprom_size, devcfg, defined, ui, buffers,
                   file_tab, ff, fnames, fbuttons, lib, sw_vars, report>>

RECURSIVE ReadFuses(_, _, _, _)
\* the loop of read_fuses over the keys of self.fuselabels from key k on, ok
\* telling whether avr_read_mem reads the byte, val being the byte the memory
\* holds afterwards
ReadFuses(st, ok, val, k) ==
    IF k > Len(fuselabels) THEN st
    ELSE IF ~HasMem(dev, fuselabels[k].name)
    THEN ReadFuses([st EXCEPT !.h.calls = Append(@, LogError)], ok, val, k + 1)
    ELSE LET h1 == LibCall(st.h, pgm, "avr_read_mem", dev, fuselabels[k].name,
                           connected)
             n  == Len(h1.calls)
             h2 == [h1 EXCEPT !.calls[n].rv = IF ok THEN 1 ELSE -1]
             h3 == IF ok THEN h2
                   ELSE [h2 EXCEPT !.calls = Append(@, LogWarning)]
         IN  ReadFuses([h |-> h3,
                        fval |-> [st.fval EXCEPT ![fuselabels[k].idx + 1] =
                                     Hex2(val)]],
                       ok, val, k + 1)

\* read_fuses(): the Read button of the fuses tab
read_fuses(ok, val) ==
    /\ TabsUp
    /\ "fuselabels" \in defined
    /\ LET st == ReadFuses([h |-> Handler, fval |-> fval], ok, val, 1)
       IN  /\ lib' = st.h.lib
           /\ calls' = st.h.calls
           /\ fval' = st.fval
    /\ UNCHANGED <<program, tool_vars, codec_vars, running, initialized, port,
                   pgm, prog_selected, dev, dev_selected, connected,
                   flash_size, eeprom_size, devcfg, fuselabels, defined, ui,
                   buffers, file_tab, ff, fnames, fbuttons, sw_vars, report>>

RECURSIVE ProgramFuses_keep(_, _, _)
\* the loop of program_fuses keeping the changed flag of a fuse whose write
\* failed
ProgramFuses_keep(st, ok, k) ==
    IF k > Len(st.labels) THEN st
    ELSE IF ~HasMem(dev, st.labels[k].name)
    THEN ProgramFuses_keep([st EXCEPT !.h.calls = Append(@, LogError)], ok, k + 1)
    ELSE IF isspace(fval[st.labels[k].idx + 1]) \/ ~st.labels[k].allocated
    THEN ProgramFuses_keep(st, ok, k + 1)
    ELSE LET h1 == LibCall(st.h, pgm, "avr_write_mem", dev, st.labels[k].name,
                           connected)
             n  == Len(h1.calls)
             h2 == [h1 EXCEPT !.calls[n].len = 1,
                              !.calls[n].rv = IF ok THEN 1 ELSE -1]
         IN  ProgramFuses_keep(
                 [h |-> h2,
                  labels |-> [st.labels EXCEPT ![k].allocated = ~ok]],
                 ok, k + 1)

\* program_fuses() with the loop that keeps the flag of a failed write
program_fuses_keep(ok) ==
    /\ TabsUp
    /\ "fuselabels" \in defined
    /\ LET st == ProgramFuses_keep([h |-> Handler, labels |-> fuselabels], ok, 1)
       IN  /\ lib' = st.h.lib
           /\ calls' = st.h.calls
           /\ fuselabels' = st.labels
    /\ UNCHANGED <<program, tool_vars, codec_vars, running, initialized, port,
                   pgm, prog_selected, dev, dev_selected, connected,
                   flash_size, eeprom_size, devcfg, defined, ui, buffers,
                   file_vars, sw_vars, report>>

RECURSIVE ProgramFuses(_, _, _)
\* the loop of program_fuses over the keys of self.fuselabels from key k on,
\* ok telling whether avr_write_mem writes the byte
ProgramFuses(st, ok, k) ==
    IF k > Len(st.labels) THEN st
    ELSE IF ~HasMem(dev, st.labels[k].name)
    THEN ProgramFuses([st EXCEPT !.h.calls = Append(@, LogError)], ok, k + 1)
    ELSE IF isspace(fval[st.labels[k].idx + 1]) \/ ~st.labels[k].allocated
    THEN ProgramFuses(st, ok, k + 1)
    ELSE LET h1 == LibCall(st.h, pgm, "avr_write_mem", dev, st.labels[k].name,
                           connected)
             n  == Len(h1.calls)
             h2 == [h1 EXCEPT !.calls[n].len = 1,
                              !.calls[n].rv = IF ok THEN 1 ELSE -1]
         IN  ProgramFuses(
                 [h |-> IF ok THEN h2
                        ELSE [h2 EXCEPT !.calls = Append(@, LogWarning)],
                  labels |-> [st.labels EXCEPT ![k].allocated = FALSE]],
                 ok, k + 1)

\* program_fuses(): the Program button of the fuses tab
program_fuses(ok) ==
    /\ TabsUp
    /\ "fuselabels" \in defined
    /\ LET st == ProgramFuses([h |-> Handler, labels |-> fuselabels], ok, 1)
       IN  /\ lib' = st.h.lib
           /\ calls' = st.h.calls
           /\ fuselabels' = st.labels
    /\ UNCHANGED <<program, tool_vars, codec_vars, running, initialized, port,
                   pgm, prog_selected, dev, dev_selected, connected,
                   flash_size, eeprom_size, devcfg, defined, ui, buffers,
                   file_vars, sw_vars, report>>

\* ------------------------------------------------- swigtest (interactive)

\* getavr(name): the report of part name on the terminal
sw_getavr(name) ==
    /\ program = "swigtest"
    /\ report' = getavr(name)
    /\ calls' = <<>>
    /\ UNCHANGED <<program, tool_vars, codec_vars, running, initialized, port, pgm,
                   prog_selected, dev, dev_selected, connected, flash_size,
                   eeprom_size, devcfg, fuselabels, defined, ui, buffers,
                   file_vars, lib, sw_vars>>

\* p = ad.locate_part(ad.cvar.part_list, name), typed by the user
sw_locate_part(d) ==
    /\ program = "swigtest"
    /\ sw_p' = d
    /\ calls' = <<>>
    /\ UNCHANGED <<program, tool_vars, codec_vars, gui_vars, lib, sw_held>>

\* start_programmer(programmer, port, avrpart) of python/swigtest.py, g.open
\* returning rv; the return value is dropped, and enable and initialize are
\* handed the module-level p, not avrpart. While p is still the pathlib.Path
\* of the configuration file search, the wrapper of enable rejects it with a
\* TypeError, which ends the function before anything is returned.
sw_start_programmer(g, rv) ==
    /\ program = "swigtest"
    /\ LET s1 == LibCall(Handler, g, "initpgm", None, NoMem, FALSE)
           s2 == LibCall(s1, g, "setup", None, NoMem, FALSE)
           s3 == LibCall(s2, g, OpenCall(rv), None, NoMem, FALSE)
           s4 == LibCall(s3, g, "enable", sw_p, NoMem, FALSE)
           s5 == LibCall(s4, g, "initialize", sw_p, NoMem, FALSE)
       IN  IF sw_p \notin Parts
           THEN /\ lib' = s3.lib
                /\ calls' = s3.calls
                /\ UNCHANGED sw_held
           ELSE /\ lib' = s5.lib
                /\ calls' = s5.calls
                /\ sw_held' = sw_held \cup {g}
    /\ UNCHANGED <<program, tool_vars, codec_vars, gui_vars, sw_p>>

\* stop_programmer(g) of python/swigtest.py
sw_stop_programmer(g) ==
    /\ program = "swigtest"
    /\ g \in sw_held
    /\ LET s1 == LibCall(Handler, g, "disable", None, NoMem, FALSE)
           s2 == LibCall(s1, g, "close", None, NoMem, FALSE)
           s3 == LibCall(s2, g, "teardown", None, NoMem, FALSE)
       IN  /\ lib' = s3.lib
           /\ calls' = s3.calls
    /\ UNCHANGED <<program, tool_vars, codec_vars, gui_vars, sw_vars>>

\* --------------------------------------------------------- specifications

Init ==
    /\ ToolIdle
    /\ program \in {"adgui", "swigtest"}
    /\ file_tab = "none"
    /\ IF program = "adgui" THEN GuiInit ELSE GuiIdle
    /\ CodecIdle
    /\ SwInit
    /\ lib = LibInit
    /\ calls = <<>>

Next ==
    \/ \E d \in Parts : device_selected(d)
    \/ \E n \in Programmers, po \in Ports : programmer_selected(n, po)
    \/ \E rv \in {-1, 0} : start_programmer(rv)
    \/ stop_programmer
    \/ cleanup
    \/ show_memories
    \/ close_memories
    \/ read_signature
    \/ flash_read(TRUE)
    \/ flash_write
    \/ eeprom_read(TRUE)
    \/ eeprom_write
    \/ \E yes \in BOOLEAN, result \in {0, -1} : chip_erase(yes, result)
    \/ \E d \in Parts : sw_getavr(d)
    \/ \E d \in Parts : sw_locate_part(d)
    \/ \E g \in Programmers, rv \in {-1, 0} : sw_start_programmer(g, rv)
    \/ \E g \in Programmers : sw_stop_programmer(g)

Spec == Init /\ [][Next]_vars

\* ------------------------------------------- memories window specification

\* adgui started with a settings file that holds device, programmer and port
MemInit ==
    /\ ToolIdle
    /\ program = "adgui"
    /\ file_tab = "none"
    /\ GuiInit
    /\ initialized
    /\ dev # None
    /\ pgm # None
    /\ port = "usb"
    /\ CodecIdle
    /\ SwInit
    /\ lib = LibInit
    /\ calls = <<>>

\* the user attaches and detaches and works in the memories window
MemNext ==
    \/ \E rv \in {-1, 0} : start_programmer(rv)
    \/ stop_programmer
    \/ show_memories
    \/ read_signature
    \/ \E ok \in BOOLEAN : flash_read(ok)
    \/ flash_write
    \/ \E ok \in BOOLEAN : eeprom_read(ok)
    \/ eeprom_write
    \/ \E yes \in BOOLEAN, result \in {0, -1} : chip_erase(yes, result)
    \/ clear_buffer

MemSpec == MemInit /\ [][MemNext]_vars

\* ------------------------------------------------ file line specification

\* adgui started with a settings file that holds the device AVR32DA28 (a
\* part whose fuses have alias names), programmer and port; the user works on
\* one tab of the memories window
FileInit ==
    /\ ToolIdle
    /\ program = "adgui"
    /\ file_tab \in FileTabs
    /\ GuiInit
    /\ initialized
    /\ dev = "AVR32DA28"
    /\ pgm # None
    /\ port = "usb"
    /\ CodecIdle
    /\ SwInit
    /\ lib = LibInit
    /\ calls = <<>>

\* the fuse files the file system may hold for the file name fname of the
\* fuses tab
FuseFiles(fname) ==
    SUBSET {fuse_filename(fname, fuselabels[k].name) : k \in 1..Len(fuselabels)}

\* the fuses whose data ad.fileio may find
FuseSets == SUBSET {fuselabels[k].name : k \in 1..Len(fuselabels)}

\* the user attaches, opens the memories window and works with the file line
\* of the tab
FileNext ==
    \/ start_programmer(0)
    \/ show_memories
    \/ read_signature
    \/ \E radio \in Formats : select_format(file_tab, radio)
    \/ /\ file_tab = "flash"
       /\ \E text \in FileTexts, isfile \in BOOLEAN, fmt \in Detected :
              detect_flash_file(text, isfile, fmt)
    \/ /\ file_tab = "flash"
       /\ \E ok \in BOOLEAN : flash_read(ok)
    \/ /\ file_tab = "flash"
       /\ \E ok \in BOOLEAN : flash_load(ok)
    \/ /\ file_tab = "flash"
       /\ flash_write
    \/ /\ file_tab = "flash"
       /\ \E isfile \in BOOLEAN, yes \in BOOLEAN : flash_save(isfile, yes, TRUE)
    \/ /\ file_tab = "eeprom"
       /\ \E text \in FileTexts, isfile \in BOOLEAN, fmt \in Detected :
              detect_eeprom_file(text, isfile, fmt)
    \/ /\ file_tab = "eeprom"
       /\ \E ok \in BOOLEAN : eeprom_read(ok)
    \/ /\ file_tab = "eeprom"
       /\ \E ok \in BOOLEAN : eeprom_load(ok)
    \/ /\ file_tab = "eeprom"
       /\ eeprom_write
    \/ /\ file_tab = "eeprom"
       /\ \E isfile \in BOOLEAN, yes \in BOOLEAN : eeprom_save(isfile, yes, TRUE)
    \/ /\ file_tab = "fuses"
       /\ \E text \in FuseTexts, fmt \in Detected :
              \E files \in FuseFiles(text) : detect_fuses_file(text, files, fmt)
    \/ /\ file_tab = "fuses"
       /\ \E files \in FuseFiles(fnames["fuses"]), yes \in BOOLEAN :
              fuses_save(files, yes, TRUE)
    \/ /\ file_tab = "fuses"
       /\ \E isfile \in BOOLEAN, picked \in 0..Len(fuselabels), files \in FuseSets,
             val \in FuseVals :
              fuses_load(isfile, picked, files, val)

FileSpec == FileInit /\ [][FileNext]_vars

\* ------------------------------------------------ fuse entry specification

\* adgui started with a settings file that holds the device AVR32DA28,
\* programmer and port; the user works with the entries of the fuses tab
FuseTabInit ==
    /\ ToolIdle
    /\ program = "adgui"
    /\ file_tab = "fuses"
    /\ GuiInit
    /\ initialized
    /\ dev = "AVR32DA28"
    /\ pgm # None
    /\ port = "usb"
    /\ CodecIdle
    /\ SwInit
    /\ lib = LibInit
    /\ calls = <<>>

\* the user attaches, opens the memories window, reads, edits and programs
\* the fuses
FuseTabNext ==
    \/ start_programmer(0)
    \/ show_memories
    \/ read_signature
    \/ \E ok \in BOOLEAN, val \in FuseVals : read_fuses(ok, val)
    \/ \E slotnumber \in 0..(Len(fuselabels) - 1), t \in EntryTexts :
           fuseval_changed(slotnumber, t)
    \/ \E ok \in BOOLEAN : program_fuses(ok)

FuseTabSpec == FuseTabInit /\ [][FuseTabNext]_vars

\* -------------------------------------------- device dialog specification

\* adgui started, with or without a settings file
DevInit ==
    /\ ToolIdle
    /\ program = "adgui"
    /\ file_tab = "none"
    /\ GuiInit
    /\ initialized
    /\ CodecIdle
    /\ SwInit
    /\ lib = LibInit
    /\ calls = <<>>

\* the user chooses devices and programmers, attaches and detaches
DevNext ==
    \/ \E d \in AllParts : device_selected(d)
    \/ \E n \in Programmers, po \in Ports : programmer_selected(n, po)
    \/ start_programmer(0)
    \/ stop_programmer
    \/ show_memories

DevSpec == DevInit /\ [][DevNext]_vars

\* ------------------------------------------------- start-up specification

\* os.name
OsNames == {"posix", "nt", "java"}

\* the build directories the module looks for on Windows, in the order of the
\* for statement
BuildCandidates == <<"build_msvc/src", "build_mingw64/src">>

\* the directories that may hold an avrdude.conf
ConfDirs ==
    {"build_linux/src", "build_msvc/src", "build_mingw64/src", "/etc",
     "/usr/local/etc"}

\* builddir after the module-level code of lines 31-42 ran on system os,
\* dirs being the build directories that exist
builddir(os, dirs) ==
    IF os = "posix" THEN "build_linux/src"
    ELSE IF os = "nt"
    THEN LET hits == {k \in 1..Len(BuildCandidates) : BuildCandidates[k] \in dirs}
         IN  IF hits = {} THEN None
             ELSE BuildCandidates[CHOOSE k \in hits : \A h \in hits : k <= h]
    ELSE None

\* python adgui.py is started: the system, the build directories and the
\* configuration files it finds
StartInit ==
    /\ program = "start"
    /\ DecoderIdle
    /\ file_tab = "none"
    /\ GuiIdle
    /\ CodecIdle
    /\ SwInit
    /\ lib = LibInit
    /\ calls = <<>>
    /\ \E os \in OsNames, dirs \in SUBSET {"build_msvc/src", "build_mingw64/src"},
          files \in SUBSET ConfDirs :
          conf = [os |-> os, dirs |-> dirs, files |-> files, builddir |-> None,
                  pos |-> "import", reads |-> <<>>, result |-> None]

\* the module-level code of adgui.py before import swig_avrdude
LoadModule ==
    /\ program = "start"
    /\ conf.pos = "import"
    /\ conf' = [conf EXCEPT !.builddir = builddir(conf.os, conf.dirs),
                            !.pos = "loaded"]
    /\ UNCHANGED <<program, decoder, codec_vars, gui_vars, lib, calls, sw_vars>>

RECURSIVE ConfLoop(_, _, _)
\* the for loop of avrdude_init over the list ds from element k on, files
\* being the directories that hold an avrdude.conf: the files read and the
\* result ("True", "False", or the exception raised by d + "/avrdude.conf")
ConfLoop(ds, files, k) ==
    IF k > Len(ds) THEN [reads |-> <<>>, result |-> "False"]
    ELSE IF ds[k] = None THEN [reads |-> <<>>, result |-> "TypeError"]
    ELSE IF ds[k] \in files THEN [reads |-> <<ds[k]>>, result |-> "True"]
    ELSE ConfLoop(ds, files, k + 1)

\* avrdude_init(), called by adgui.__init__
avrdude_init ==
    /\ program = "start"
    /\ conf.pos = "loaded"
    /\ LET r == ConfLoop(<<conf.builddir, "/etc", "/usr/local/etc">>,
                         conf.files, 1)
       IN  conf' = [conf EXCEPT !.reads = r.reads, !.result = r.result,
                                !.pos = "done"]
    /\ UNCHANGED <<program, decoder, codec_vars, gui_vars, lib, calls, sw_vars>>

StartNext == LoadModule \/ avrdude_init

StartSpec == StartInit /\ [][StartNext]_vars

\* ------------------------------------------------- tools/scripts_decoder.py

RECURSIVE ScanLoop(_, _, _)
\* the scan of the script elements of xml from element k on: the bytes of the
\* UPDI scripts of the functions of c_dict, by chip and function
ScanLoop(xml, k, mcu_dict) ==
    IF k > Len(xml) THEN mcu_dict
    ELSE IF ~EndsWith(xml[k].function, STR_UPDI) \/ Len(xml[k].function) < 5
    THEN ScanLoop(xml, k + 1, mcu_dict)
    ELSE LET function_name == SubSeq(xml[k].function, 1,
                                     Len(xml[k].function) - 5)
             chip_name     == xml[k].chip
             d1 == IF DictHas(mcu_dict, chip_name) THEN mcu_dict
                   ELSE DictPut(mcu_dict, chip_name, <<>>)
             f0 == DictGet(d1, chip_name)
             f1 == IF DictHas(f0, function_name) THEN f0
                   ELSE DictPut(f0, function_name, <<>>)
             f2 == DictPut(f1, function_name,
                           DictGet(f1, function_name) \o xml[k].bytes)
         IN  IF function_name \notin c_dict
             THEN ScanLoop(xml, k + 1, mcu_dict)
             ELSE ScanLoop(xml, k + 1, DictPut(d1, chip_name, f2))

\* the search that always ends at the end of the list
FindEntry_end(func_array, funct_bytes) == Len(func_array)

\* the position x at which the search of the reordering loop breaks: the
\* first entry equal to funct_bytes, or the end of the list
FindEntry(func_array, funct_bytes) ==
    LET entries == Len(func_array)
        hits    == {x \in 0..entries :
                      x = entries \/ func_array[x + 1] = funct_bytes}
    IN  CHOOSE x \in hits : \A h \in hits : x <= h

RECURSIVE ReorderChip(_, _, _, _)
\* the inner loop of the reordering over the functions of one chip from
\* function j on; st holds mcu_dict and func_dict
ReorderChip(st, mcu_name, function_names, j) ==
    IF j > Len(function_names) THEN st
    ELSE LET function_name == function_names[j]
             fd0 == IF DictHas(st.func_dict, function_name) THEN st.func_dict
                    ELSE DictPut(st.func_dict, function_name, <<>>)
             chip_func   == DictGet(st.mcu_dict, mcu_name)
             funct_bytes == DictGet(chip_func, function_name)
             func_array  == DictGet(fd0, function_name)
             x   == FindEntry(func_array, funct_bytes)
             fd1 == IF x = Len(func_array)
                    THEN DictPut(fd0, function_name,
                                 Append(func_array, funct_bytes))
                    ELSE fd0
         IN  ReorderChip(
                 [mcu_dict  |-> DictPut(st.mcu_dict, mcu_name,
                                        DictPut(chip_func, function_name, x)),
                  func_dict |-> fd1],
                 mcu_name, function_names, j + 1)

RECURSIVE ReorderLoop(_, _, _)
\* the reordering of mcu_dict to func_dict over the chips from chip i on
ReorderLoop(st, mcu_names, i) ==
    IF i > Len(mcu_names) THEN st
    ELSE ReorderLoop(
             ReorderChip(st, mcu_names[i],
                         DictKeys(DictGet(st.mcu_dict, mcu_names[i])), 1),
             mcu_names, i + 1)

\* non_unique_func: the functions with more than one array
non_unique_func(func_dict) ==
    {f \in c_dict : DictHas(func_dict, f) /\ Len(DictGet(func_dict, f)) # 1}

\* the initialiser of struct avr_script_lut avr_scripts: func_0 and its size
\* for a function with one array, NULL and 0 otherwise (a field without an
\* initialiser is zero)
StructInit(func_dict) ==
    [f \in c_dict |->
        IF DictHas(func_dict, f) /\ Len(DictGet(func_dict, f)) = 1
        THEN ScriptField(0, Len(DictGet(func_dict, f)[1]))
        ELSE ScriptField(-1, 0)]

\* convert_xml(xml_path, c_dict): scan, reordering and the generated table
convert_xml ==
    /\ program = "decoder"
    /\ decoder.pos = "start"
    /\ LET scripts == ScanLoop(decoder.xml, 1, <<>>)
           st      == ReorderLoop([mcu_dict |-> scripts, func_dict |-> <<>>],
                                  DictKeys(scripts), 1)
       IN  decoder' = [decoder EXCEPT !.pos = "converted",
                                      !.scripts = scripts,
                                      !.mcu_dict = st.mcu_dict,
                                      !.func_dict = st.func_dict,
                                      !.avr_scripts = StructInit(st.func_dict)]
    /\ UNCHANGED <<program, conf, codec_vars, gui_vars, lib, calls, sw_vars>>

\* strncmp(a, b, 10) == 0
strncmp10(a, b) ==
    SubSeq(a, 1, IF Len(a) < 10 THEN Len(a) ELSE 10)
        = SubSeq(b, 1, IF Len(b) < 10 THEN Len(b) ELSE 10)

\* namepos of the generated get_pickit_script: the first chip of chip_lut
\* that compares equal to partdesc, or -1
namepos(chip_lut, partdesc) ==
    LET hits == {i \in 1..Len(chip_lut) : strncmp10(chip_lut[i], partdesc)}
    IN  IF hits = {} THEN -1
        ELSE (CHOOSE i \in hits : \A h \in hits : i <= h) - 1

\* the case of the generated switch for a chip: the assignments to the
\* fields of the functions of the chip that are in non_unique_func (cases
\* with equal bodies share one body)
SwitchCase(table, chip_func, func_dict) ==
    [f \in c_dict |->
        IF DictHas(chip_func, f) /\ f \in non_unique_func(func_dict)
        THEN ScriptField(DictGet(chip_func, f),
                         Len(DictGet(func_dict, f)[DictGet(chip_func, f) + 1]))
        ELSE table[f]]

\* the generated get_pickit_script(partdesc)
get_pickit_script(partdesc) ==
    /\ program = "decoder"
    /\ decoder.pos = "converted"
    /\ LET chip_lut == DictKeys(decoder.mcu_dict)
           pos      == namepos(chip_lut, partdesc)
       IN  IF pos = -1
           THEN decoder' = [decoder EXCEPT !.partdesc = partdesc,
                                           !.ret = "NULL"]
           ELSE decoder' =
                    [decoder EXCEPT
                        !.partdesc = partdesc,
                        !.ret = "avr_scripts",
                        !.avr_scripts =
                            SwitchCase(decoder.avr_scripts,
                                       DictGet(decoder.mcu_dict,
                                               chip_lut[pos + 1]),
                                       decoder.func_dict)]
    /\ UNCHANGED <<program, conf, codec_vars, gui_vars, lib, calls, sw_vars>>

\* ------------------------------------------------- decoder specification

\* scripts_decoder.py is started on an XML file
LutInit ==
    /\ program = "decoder"
    /\ conf = [os |-> "posix", dirs |-> {}, files |-> {}, builddir |-> None,
               pos |-> "idle", reads |-> <<>>, result |-> None]
    /\ \E xml \in Xmls :
           decoder = [pos |-> "start", xml |-> xml, scripts |-> <<>>,
                      mcu_dict |-> <<>>, func_dict |-> <<>>,
                      avr_scripts |-> [f \in c_dict |-> ScriptField(-1, 0)],
                      partdesc |-> <<>>, ret |-> "none"]
    /\ file_tab = "none"
    /\ GuiIdle
    /\ CodecIdle
    /\ SwInit
    /\ lib = LibInit
    /\ calls = <<>>

\* the table is generated, then parts are looked up in it
LutNext ==
    \/ convert_xml
    \/ \E partdesc \in Partdescs : get_pickit_script(partdesc)

LutSpec == LutInit /\ [][LutNext]_vars

\* ----------------------------------------------------- codec specification

\* a caller holds a table and a key; nothing was computed yet
CodecInit ==
    /\ ToolIdle
    /\ program = "codec"
    /\ file_tab = "none"
    /\ GuiIdle
    /\ SwInit
    /\ lib = LibInit
    /\ calls = <<>>
    /\ codec_config \in Configs
    /\ codec_fuse \in Keys
    /\ codec_val = 255
    /\ codec_vallist = <<>>
    /\ codec_op = "none"
    /\ codec_sw = [val |-> 255, vallist |-> <<>>]

\* vallist = dissect_fuse(config, fuse, val), for a chosen or the last value
CallDissect ==
    /\ program = "codec"
    /\ \E v \in Vals \cup {codec_val} :
        /\ codec_val' = v
        /\ codec_vallist' = dissect_fuse(codec_config, codec_fuse, v)
        /\ codec_sw' = [val |-> v,
                        vallist |-> sw_dissect_fuse(codec_config, codec_fuse, v)]
    /\ codec_op' = "dissect_fuse"
    /\ UNCHANGED <<program, tool_vars, codec_config, codec_fuse, gui_vars, lib, calls, sw_vars>>

\* val = default_fuse(config, fuse)
CallDefault ==
    /\ program = "codec"
    /\ codec_val' = default_fuse(codec_config, codec_fuse)
    /\ codec_vallist' = <<>>
    /\ codec_sw' = [val |-> sw_default_fuse(codec_config, codec_fuse),
                    vallist |-> <<>>]
    /\ codec_op' = "default_fuse"
    /\ UNCHANGED <<program, tool_vars, codec_config, codec_fuse, gui_vars, lib, calls, sw_vars>>

\* val = synthesize_fuse(config, fuse, vallist), for a chosen or the last list
CallSynthesize ==
    /\ program = "codec"
    /\ \E l \in Vallists \cup {codec_vallist} :
        /\ codec_vallist' = l
        /\ codec_val' = synthesize_fuse(codec_config, codec_fuse, l)
        /\ codec_sw' = [val |-> sw_synthesize_fuse(codec_config, codec_fuse, l),
                        vallist |-> l]
    /\ codec_op' = "synthesize_fuse"
    /\ UNCHANGED <<program, tool_vars, codec_config, codec_fuse, gui_vars, lib, calls, sw_vars>>

CodecNext == CallDissect \/ CallDefault \/ CallSynthesize

FuseSpec == CodecInit /\ [][CodecNext]_vars

\* ------------------------------------------------- properties of the codec

\* the width of a fuse value (resval starts as 0xff)
FuseBits == 8

\* bit b of the non-negative integer v
BitOf(v, b) == (v \div (2 ^ b)) % 2

RECURSIVE FieldOf(_, _, _, _)
\* the bits of v under mask from bit b on, each moved down by lsh places
FieldOf(v, mask, lsh, b) ==
    IF b >= FuseBits THEN 0
    ELSE (IF b >= lsh /\ BitOf(v, b) = 1 /\ BitOf(mask, b) = 1
          THEN 2 ^ (b - lsh) ELSE 0) + FieldOf(v, mask, lsh, b + 1)

\* the string s contains 'fuse'
HasFuse(s) ==
    \E k \in 1..(Len(s) - 3) :
        s[k] = "f" /\ s[k + 1] = "u" /\ s[k + 2] = "s" /\ s[k + 3] = "e"

\* the key of entry i as the specification words it
KeyOf(i) ==
    IF HasFuse(i.memstr) THEN i.memstr
    ELSE <<"f", "u", "s", "e">> \o Str(i.memoffset)

\* the names of the pairs of a list
NamesOf(vallist) == {vallist[k][1] : k \in 1..Len(vallist)}

\* the entries of the table that match the key
Matching == {k \in 1..Len(codec_config) : EntryMatches(codec_config[k], codec_fuse)}

\* the bitfields of the key follow the data model: disjoint masks, distinct names
DisjointFields ==
    \A k, l \in Matching :
        k # l => /\ BitAnd(codec_config[k].mask, codec_config[l].mask) = 0
                 /\ codec_config[k].name # codec_config[l].name

\* every option of the bitfields of the key fits its mask and has a value of
\* its own, and the initial value is one of the options
ProperOptions ==
    \A k \in Matching :
        LET i == codec_config[k]
        IN  /\ \A n, m \in 1..Len(i.vlist) :
                   n # m => i.vlist[n].value # i.vlist[m].value
            /\ \A n \in 1..Len(i.vlist) :
                   AndNot(Shl(i.vlist[n].value, i.lsh), i.mask) = 0
            /\ \E n \in 1..Len(i.vlist) : i.vlist[n].value = i.initval

\* C1: after vallist = dissect_fuse(C, K, default_fuse(C, K)) on a table that
\* follows the data model, synthesizing and dissecting twice more,
\* dissect_fuse(C, K, synthesize_fuse(C, K, dissect_fuse(C, K,
\* synthesize_fuse(C, K, vallist)))), returns the same list of pairs.
C1_RoundTrip ==
    ( /\ codec_op = "dissect_fuse"
      /\ codec_val = default_fuse(codec_config, codec_fuse)
      /\ DisjointFields
      /\ ProperOptions )
    => dissect_fuse(codec_config, codec_fuse,
           synthesize_fuse(codec_config, codec_fuse,
               dissect_fuse(codec_config, codec_fuse,
                   synthesize_fuse(codec_config, codec_fuse, codec_vallist))))
       = codec_vallist

\* every pair of the list selects an option of a bitfield of the key
ValidSelection ==
    \A r \in 1..Len(codec_vallist) :
        \E k \in Matching :
            /\ codec_config[k].name = codec_vallist[r][1]
            /\ \E n \in 1..Len(codec_config[k].vlist) :
                   codec_config[k].vlist[n].label = codec_vallist[r][2]

\* C7: after synthesize_fuse on a table with disjoint bitfields and a list
\* that selects options of bitfields of the key, every bitfield of the key
\* whose name is not in the list has all bits of its mask cleared in the
\* result: (result & mask) = 0.
C7_UnmentionedCleared ==
    (codec_op = "synthesize_fuse" /\ DisjointFields /\ ValidSelection)
    => \A k \in Matching :
           codec_config[k].name \notin NamesOf(codec_vallist)
           => BitAnd(codec_val, codec_config[k].mask) = 0

\* the (entry, option) positions of the table whose option value equals the
\* field that the entry extracts from the dissected value
Slots ==
    UNION { { <<k, n>> : n \in {m \in 1..Len(codec_config[k].vlist) :
                codec_config[k].vlist[m].value =
                    FieldOf(codec_val, codec_config[k].mask,
                            codec_config[k].lsh, 0)} } : k \in Matching }

\* the first such position of each entry
FirstSlots == {s \in Slots : \A t \in Slots : t[1] = s[1] => s[2] <= t[2]}

\* table order, then option order
SlotBefore(s, t) == s[1] < t[1] \/ (s[1] = t[1] /\ s[2] < t[2])

\* the returned list is the pairs of the positions S, in that order
ListsExactly(S) ==
    /\ Len(codec_vallist) = Cardinality(S)
    /\ \A s \in S :
           codec_vallist[Cardinality({t \in S : SlotBefore(t, s)}) + 1]
               = <<codec_config[s[1]].name, codec_config[s[1]].vlist[s[2]].label>>

\* C8 (as claimed): dissect_fuse returns, for each entry matching the key, at
\* most one pair, the one of the first option whose value equals the
\* extracted field, the pairs of different entries in table order.
C8_FirstMatchOnly == codec_op = "dissect_fuse" => ListsExactly(FirstSlots)

\* C8 (amended): dissect_fuse returns, for each entry matching the key, one
\* pair for every option whose value equals the extracted field, in the order
\* of the entry's vlist, the pairs of different entries in table order.
C8_EveryMatch == codec_op = "dissect_fuse" => ListsExactly(Slots)

\* dissect_fuse returned two pairs for one entry
C8_Witness ==
    /\ codec_op = "dissect_fuse"
    /\ \E s, t \in Slots : s[1] = t[1] /\ s[2] < t[2]
    /\ Len(codec_vallist) >= 2

\* C9: every pair dissect_fuse(C, K, v) returns comes from an entry whose
\* memstr is not 'lock' and whose key (the memstr when it contains 'fuse',
\* else 'fuse' followed by memoffset) equals K, and from an option of it whose
\* value equals (v & mask) >> lsh; dissecting with K = 'lock' returns the
\* empty list.
C9_KeyAndField ==
    codec_op = "dissect_fuse" =>
        /\ \A r \in 1..Len(codec_vallist) :
               \E k \in 1..Len(codec_config) :
                   LET i == codec_config[k]
                   IN  /\ i.memstr # <<"l", "o", "c", "k">>
                       /\ KeyOf(i) = codec_fuse
                       /\ i.name = codec_vallist[r][1]
                       /\ \E n \in 1..Len(i.vlist) :
                              /\ i.vlist[n].label = codec_vallist[r][2]
                              /\ i.vlist[n].value =
                                     FieldOf(codec_val, i.mask, i.lsh, 0)
        /\ (codec_fuse = <<"l", "o", "c", "k">> => codec_vallist = <<>>)

\* dissect_fuse returned a pair for an entry whose key is made from its
\* memoffset, from a table that holds a lock entry as well
C9_Witness ==
    /\ codec_op = "dissect_fuse"
    /\ Len(codec_vallist) > 0
    /\ \E k \in 1..Len(codec_config) : codec_config[k].memstr = STR_lock
    /\ \E k \in Matching : ~HasFuse(codec_config[k].memstr)

RECURSIVE Baseline(_)
\* 0xFF without the mask bits of the entries matching the key, from bit b on
Baseline(b) ==
    IF b >= FuseBits THEN 0
    ELSE (IF \E k \in Matching : BitOf(codec_config[k].mask, b) = 1
          THEN 0 ELSE 2 ^ b) + Baseline(b + 1)

\* C10: synthesize_fuse(C, K, []) is 0xFF with the mask bits of every entry
\* matching K cleared (0xFF when no entry matches).
C10_EmptyList ==
    (codec_op = "synthesize_fuse" /\ codec_vallist = <<>>)
    => codec_val = Baseline(0)

\* synthesize_fuse was called with the empty list on a table with an entry
\* matching the key, and cleared some bits but not all
C10_Witness ==
    /\ codec_op = "synthesize_fuse"
    /\ codec_vallist = <<>>
    /\ Matching # {}
    /\ codec_val > 0 /\ codec_val < 255

\* the masks of the entries matching the key do not overlap, and every
\* initval << lsh lies within the mask of its entry
InitvalsFit ==
    /\ \A k, l \in Matching :
           k # l => \A b \in 0..(FuseBits - 1) :
                       BitOf(codec_config[k].mask, b) = 0
                       \/ BitOf(codec_config[l].mask, b) = 0
    /\ \A k \in Matching :
           \A b \in 0..(FuseBits - 1) :
               BitOf(codec_config[k].initval * (2 ^ codec_config[k].lsh), b) = 1
               => BitOf(codec_config[k].mask, b) = 1

\* C11: on a table whose entries matching K have pairwise non-overlapping
\* masks and initvals that fit their masks, default_fuse(C, K) & mask equals
\* initval << lsh for every matching entry: under the mask the result has
\* the bits of initval << lsh.
C11_DefaultFields ==
    (codec_op = "default_fuse" /\ InitvalsFit)
    => \A k \in Matching :
           \A b \in 0..(FuseBits - 1) :
               BitOf(codec_config[k].mask, b) = 1
               => BitOf(codec_val, b)
                    = BitOf(codec_config[k].initval * (2 ^ codec_config[k].lsh), b)

\* default_fuse ran on a table with two fitting bitfields of the key, one of
\* them mask 0x3F, lsh 0, initval 0x02, and the low six bits are 0x02
C11_Witness ==
    /\ codec_op = "default_fuse"
    /\ InitvalsFit
    /\ Cardinality(Matching) = 2
    /\ \E k \in Matching :
           /\ codec_config[k].mask = 63
           /\ codec_config[k].lsh = 0
           /\ codec_config[k].initval = 2
    /\ codec_val % 64 = 2

\* bit b of the fuse byte is under the mask of no entry matching the key
Uncovered(b) == \A k \in Matching : BitOf(codec_config[k].mask, b) = 0

\* C12: in the value returned by synthesize_fuse and by default_fuse, every
\* bit 0..7 that is under the mask of no entry matching the key is 1.
C12_UncoveredBitsHigh ==
    codec_op \in {"synthesize_fuse", "default_fuse"}
    => \A b \in 0..(FuseBits - 1) : Uncovered(b) => BitOf(codec_val, b) = 1

\* synthesize_fuse ran with a non-empty list on a table with an entry
\* matching the key that leaves some bit uncovered, and changed the byte
C12_Witness ==
    /\ codec_op = "synthesize_fuse"
    /\ codec_vallist # <<>>
    /\ Matching # {}
    /\ \E b \in 0..(FuseBits - 1) : Uncovered(b)
    /\ codec_val # 255

\* ---------------------------------------------- properties of the sessions

\* the calls of the handler that ran last, by position
Logged == {calls[k] : k \in 1..Len(calls)}

\* C29: dissect_fuse, synthesize_fuse and default_fuse of python/swigtest.py
\* return what the functions of the same name in adgui.py return, for every
\* table, key, value and list.
C29_CodecsAgree ==
    codec_op # "none" =>
        codec_sw = [val |-> codec_val, vallist |-> codec_vallist]

\* C2: enable and initialize are called on a programmer only after open(port)
\* on it returned a non-failure value (enable follows a successful open,
\* initialize follows enable), in adgui and in swigtest; after a failed open
\* adgui is not connected.
C2_EnableAfterOpen ==
    /\ \A c \in Logged :
           /\ c.call = "enable" => c.prev = "open_ok"
           /\ c.call = "initialize" => c.prev = "enable"
    /\ (\E c \in Logged : c.call = "open_failed") => ~connected

\* the lifecycle of one programmer: the calls that may follow a call
LifecycleNext(prev) ==
    CASE prev = "none"        -> {"initpgm"}
      [] prev = "initpgm"     -> {"setup"}
      [] prev = "setup"       -> {"open_ok", "open_failed"}
      [] prev = "open_ok"     -> {"enable"}
      [] prev = "enable"      -> {"initialize"}
      [] prev = "initialize"  -> MemOps \cup {"disable"}
      [] prev = "memop"       -> MemOps \cup {"disable"}
      [] prev = "disable"     -> {"close"}
      [] prev = "close"       -> {"teardown"}
      [] prev = "teardown"    -> {"initpgm"}
      [] prev = "open_failed" -> {"initpgm"}
      [] OTHER -> {}

\* C3: in adgui every call made on a programmer follows the call made on it
\* before in the order initpgm, setup, open, enable, initialize, memory
\* operations, disable, close, teardown (a new initpgm may follow teardown or
\* a failed open).
C3_LifecycleOrder ==
    program = "adgui" =>
        \A c \in Logged : c.pgm # None => c.call \in LifecycleNext(c.prev)

\* C27: every initpgm of start_programmer on a programmer is the first call
\* on it or follows teardown on it, also when open(port) failed and the
\* attach is tried again.
C27_TeardownBeforeInit ==
    program = "adgui" =>
        \A c \in Logged :
            (c.pgm # None /\ c.call = "initpgm") =>
                c.prev \in {"none", "teardown"}

\* C4: in adgui avr_read_mem, avr_write_mem and chip_erase are called only
\* while self.connected is set.
C4_MemOpsConnected ==
    program = "adgui" => \A c \in Logged : c.call \in MemOps => c.conn

\* C5: in adgui at most one programmer has its port open.
C5_OneOpen ==
    program = "adgui" => Cardinality({p \in Programmers : lib.open[p]}) <= 1

\* C6: in adgui, while connected, every memory operation on a programmer that
\* was enabled is handed the part that was handed to enable and initialize.
C6_SessionPart ==
    program = "adgui" =>
        \A c \in Logged :
            (c.call \in MemOps /\ c.conn /\ lib.part[c.pgm] # None)
            => c.part = lib.part[c.pgm]

\* C19: no report of the memories of a part reads page_size or num_pages of a
\* memory whose paged flag is false, neither the device info table of adgui
\* nor the memory overview of swigtest.
C19_PagedFieldsOnly ==
    \A r \in report :
        r.field \in {"page_size", "num_pages"} => Paged(r.part, r.mem)

\* ------------------------------------- properties of the memories window

\* C13: a press of the Clear button of the flash tab clears the 'flash'
\* memory, sets the recorded flash size to 0 and leaves the recorded EEPROM
\* size and the EEPROM buffer indicator unchanged.
C13_ClearFlashOnly ==
    [][clear_buffer =>
          /\ \E c \in {calls'[k] : k \in 1..Len(calls')} :
                 c.call = "clear" /\ c.mem = STR_flash
          /\ flash_size' = 0
          /\ eeprom_size' = eeprom_size
          /\ ("eeprom_size" \in defined') = ("eeprom_size" \in defined)
          /\ buffers'.ee_buffer = buffers.ee_buffer]_vars

\* C14: within a session the flash, EEPROM and fuse tabs are enabled only once
\* the signature was read in that session, and a flash or EEPROM operation
\* or a chip erase made while connected follows a memory operation of the
\* same session (the first of which is the signature read).
C14_SignatureFirst ==
    /\ (connected /\ ui.tabs) => lib.last[pgm] = "memop"
    /\ \A c \in Logged :
           (c.call \in MemOps /\ c.conn /\ c.mem # STR_signature)
           => c.prev = "memop"

\* C22: flash_write and eeprom_write call avr_write_mem only with a positive
\* length, whatever device reads, file loads (also failed ones), clears and
\* chip erases came before.
C22_PositiveWrite ==
    \A c \in Logged :
        (c.call = "avr_write_mem" /\ c.mem \in {STR_flash, STR_eeprom})
        => c.len > 0

\* C18: chip_erase takes a zero return of pgm.chip_erase for success (the
\* recorded flash size becomes 0 and the flash buffer is marked empty) and
\* any other return for failure (a warning is logged, the recorded flash size
\* and the buffer indicator stay); when the user declines the question,
\* pgm.chip_erase is not called and no state changes.
C18_EraseResult ==
    [][\A yes \in BOOLEAN, result \in {0, -1} :
           chip_erase(yes, result) =>
               /\ (yes /\ result = 0) =>
                      /\ flash_size' = 0
                      /\ buffers'.buffer = "empty"
                      /\ \A k \in 1..Len(calls') : calls'[k] # LogWarning
               /\ (yes /\ result # 0) =>
                      /\ \E k \in 1..Len(calls') : calls'[k] = LogWarning
                      /\ flash_size' = flash_size
                      /\ buffers' = buffers
               /\ ~yes =>
                      /\ \A k \in 1..Len(calls') : calls'[k].call # "chip_erase"
                      /\ UNCHANGED <<program, tool_vars, codec_vars, gui_vars, lib,
                                     sw_vars>>]_vars

\* the chip erase failed after the flash was read: the size and the full
\* buffer are still there
C18_Witness ==
    /\ \E k \in 1..Len(calls) : calls[k].call = "chip_erase" /\ calls[k].rv = -1
    /\ \E k \in 1..Len(calls) : calls[k] = LogWarning
    /\ flash_size > 0
    /\ buffers.buffer = "full"

\* ---------------------------------------------- properties of the file lines

\* a step of the Save button of tab t, the tab the user works on
SaveStep(t) ==
    /\ t = file_tab
    /\ CASE t = "flash" ->
               \E isfile \in BOOLEAN, yes \in BOOLEAN :
                   flash_save(isfile, yes, TRUE)
         [] t = "eeprom" ->
               \E isfile \in BOOLEAN, yes \in BOOLEAN :
                   eeprom_save(isfile, yes, TRUE)
         [] t = "fuses" ->
               \E files \in FuseFiles(fnames["fuses"]), yes \in BOOLEAN :
                   fuses_save(files, yes, TRUE)

\* the state besides the log of the last handler
kept_vars ==
    <<program, tool_vars, codec_vars, running, initialized, port, pgm,
      prog_selected, dev, dev_selected, connected, flash_size, eeprom_size, devcfg,
      fuselabels, defined, ui, buffers, file_vars, lib, sw_vars, report>>

\* C15: flash_save, eeprom_save and fuses_save never call fileio with
\* FIO_WRITE and the format Auto or ELF: with Auto or ELF checked the handler
\* logs an error, writes no file, asks no overwrite question and leaves all
\* state unchanged.
C15_NoAutoElfWrite ==
    [][\A t \in FileTabs :
           SaveStep(t) =>
               /\ \A k \in 1..Len(calls') :
                      calls'[k].call = "fileio_write"
                          => calls'[k].fmt \notin {"FMT_AUTO", "FMT_ELF"}
               /\ ff[t] \in {"Auto", "ELF"} =>
                      /\ calls' = <<LogError>>
                      /\ UNCHANGED kept_vars]_vars

\* Save was pressed on the fuses tab with ELF checked and a fuse to save
C15_Witness ==
    /\ file_tab = "fuses"
    /\ fbuttons["fuses"]
    /\ ff["fuses"] = "ELF"
    /\ \E k \in 1..Len(fuselabels) : fuselabels[k].allocated
    /\ calls = <<LogError>>

\* the fuses a handler populated: the fileio reads that returned data
Populated(log) ==
    {k \in 1..Len(log) : log[k].call = "fileio_read" /\ log[k].rv > 0}

\* the handler ended in an exception
Failed(log) ==
    \E k \in 1..Len(log) :
        log[k].call \in {"UnboundLocalError", "AttributeError"}

\* C16: fuses_load with a file name without '%' and a format other than ELF
\* populates at most one fuse memory per invocation; with Auto checked and
\* the file existing the handler does not fail: it autodetects the format
\* and reads every fuse only from a file detected as ELF.
C16_LoadOneFuse ==
    [][\A isfile \in BOOLEAN, picked \in 0..Len(fuselabels),
          files \in FuseSets, val \in FuseVals :
           ( /\ file_tab = "fuses"
             /\ Find(fnames["fuses"], <<"%">>) = -1
             /\ ff["fuses"] # "ELF"
             /\ fuses_load(isfile, picked, files, val) )
           => /\ ~(ff["fuses"] = "Auto" /\ isfile)
                  => Cardinality(Populated(calls')) <= 1
              /\ (ff["fuses"] = "Auto" /\ isfile) => ~Failed(calls')]_vars

\* the file calls of the last handler on a fuse memory
FuseFileCalls ==
    {c \in Logged :
        /\ c.call \in {"fileio_read", "fileio_write"}
        /\ \E k \in 1..Len(fuselabels) : fuselabels[k].name = c.mem}

\* file is pattern with its first '%' replaced by name, or pattern itself
\* when it has no '%'
Substituted(pattern, name, file) ==
    LET p == Find(pattern, <<"%">>)
    IN  IF p = -1 THEN file = pattern
        ELSE /\ Len(file) = Len(pattern) - 1 + Len(name)
             /\ SubSeq(file, 1, p) = SubSeq(pattern, 1, p)
             /\ SubSeq(file, p + 1, p + Len(name)) = name
             /\ SubSeq(file, p + Len(name) + 1, Len(file))
                    = SubSeq(pattern, p + 2, Len(pattern))

\* C17 (as the specification states it): the file of a fuse is the file name
\* of the fuses tab with '%' replaced by the alias name under which the fuse
\* is shown to the user; a file name without '%' is used unchanged.
C17_AliasName ==
    \A c \in FuseFileCalls :
        Substituted(fnames["fuses"], find_mem_alias(dev, c.mem), c.file)

\* C17 (as the code has it): the file of a fuse is the file name of the
\* fuses tab with its first '%' replaced by the memory name of the fuse (the
\* key of self.fuselabels, fuse0 rather than wdtcfg), so one pattern yields a
\* distinct file per fuse; a file name without '%' is used unchanged.
C17_MemoryName ==
    /\ \A c \in FuseFileCalls : Substituted(fnames["fuses"], c.mem, c.file)
    /\ \A c, d \in FuseFileCalls :
           (Find(fnames["fuses"], <<"%">>) # -1 /\ c.mem # d.mem)
               => c.file # d.file

\* Load with the pattern %.hex read fuse0.hex into fuse0 and fuse1.hex into
\* fuse1
C17_Witness ==
    /\ fnames["fuses"] = <<"%">> \o EXT_hex
    /\ \E c, d \in FuseFileCalls :
           /\ c.call = "fileio_read" /\ d.call = "fileio_read"
           /\ c.mem = STR_fuse0 /\ c.file = STR_fuse0 \o EXT_hex
           /\ d.mem = STR_fuse1 /\ d.file = STR_fuse1 \o EXT_hex

\* a step of the file line of tab t, the tab the user works on, that leaves
\* the name of a file in it; isfile tells whether the file (on the fuses tab:
\* the file of every fuse) exists, fmt is what the autodetection answers
DetectStep(t, isfile, fmt) ==
    /\ t = file_tab
    /\ Len(fnames'[t]) > 0
    /\ calls' = <<>>
    /\ CASE t = "flash"  -> detect_flash_file(fnames'[t], isfile, fmt)
         [] t = "eeprom" -> detect_eeprom_file(fnames'[t], isfile, fmt)
         [] t = "fuses"  ->
               detect_fuses_file(fnames'[t],
                   IF isfile THEN UNION FuseFiles(fnames'[t]) ELSE {}, fmt)

\* the format the suffix of a file name stands for, or old
ByExtension(fname, old) ==
    CASE \E ext \in {EXT_hex, EXT_ihex, EXT_eep} : EndsWith(fname, ext) -> "Ihex"
      [] EndsWith(fname, EXT_srec) -> "Srec"
      [] EndsWith(fname, EXT_bin)  -> "Rbin"
      [] OTHER -> old

\* the format the autodetection found, or old
ByContent(fmt, old) ==
    CASE fmt = "FMT_ELF"  -> "ELF"
      [] fmt = "FMT_IHEX" -> "Ihex"
      [] fmt = "FMT_SREC" -> "Srec"
      [] OTHER -> old

\* C20 (as the specification states it): when the autodetection does not
\* determine the format of the chosen file, detect_flash_file,
\* detect_eeprom_file and detect_fuses_file select the format from the file
\* name extension (.hex, .ihex, .eep: Intel hex; .srec: S-record; .bin: raw
\* binary), whether or not the file exists.
C20_ExtensionAlways ==
    [][\A t \in FileTabs, isfile \in BOOLEAN, fmt \in Detected :
           ( /\ DetectStep(t, isfile, fmt)
             /\ ~isfile \/ fmt \notin {"FMT_ELF", "FMT_IHEX", "FMT_SREC"} )
           => ff'[t] = ByExtension(fnames'[t], ff[t])]_vars

\* C20 (as the code has it): the file name extension selects the format only
\* when the file does not exist; for a file that exists the autodetection
\* selects ELF, Intel hex or S-record, and a file it does not recognise
\* leaves the selected format as it was, whatever its extension.
C20_ExtensionIfMissing ==
    [][\A t \in FileTabs, isfile \in BOOLEAN, fmt \in Detected :
           DetectStep(t, isfile, fmt)
           => ff'[t] = IF isfile THEN ByContent(fmt, ff[t])
                       ELSE ByExtension(fnames'[t], ff[t])]_vars

\* the flash tab names a.bin, and the format is still Auto
C20_Witness ==
    /\ file_tab = "flash"
    /\ fnames["flash"] = <<"a">> \o EXT_bin
    /\ fbuttons["flash"]
    /\ ff["flash"] = "Auto"
    /\ calls = <<>>

\* C23: the recorded EEPROM size is defined in every reachable state:
\* eeprom_write before any EEPROM read or load logs 'No data to write' and
\* issues no device write, and eeprom_save before any EEPROM read or load
\* saves with length -1; neither of them fails.
C23_EepromSizeDefined ==
    [][(file_tab = "eeprom" /\ "eeprom_size" \notin defined) =>
          /\ eeprom_write => calls' = <<LogWarning>>
          /\ \A isfile \in BOOLEAN, yes \in BOOLEAN :
                 ( /\ eeprom_save(isfile, yes, TRUE)
                   /\ ff["eeprom"] \notin {"Auto", "ELF"}
                   /\ isfile => yes )
                 => \E k \in 1..Len(calls') :
                        /\ calls'[k].call = "fileio_write"
                        /\ calls'[k].len = -1]_vars

\* ------------------------------------------ properties of the fuse entries

\* the position of memory name in the memory list of part d
MemPos(d, name) == CHOOSE k \in 1..Len(PartMem(d)) : PartMem(d)[k] = name

\* C24: after every device selection fuselabels holds exactly the fuse
\* memories of the selected device (the name contains 'fuse' and is not
\* 'fuses'), each with a distinct slot index 0..n-1 in memory-list order and
\* its changed flag false; no fuse of a device selected before remains.
C24_FusesOfDevice ==
    [][\A d \in AllParts :
           device_selected(d) =>
               /\ {fuselabels'[k].name : k \in 1..Len(fuselabels')}
                      = {m \in MemsOf(d) :
                            m # STR_fuses /\ Find(m, STR_fuse) # -1}
               /\ \A k \in 1..Len(fuselabels') :
                      /\ fuselabels'[k].idx = k - 1
                      /\ ~fuselabels'[k].allocated
               /\ \A j, k \in 1..Len(fuselabels') :
                      j < k => MemPos(d, fuselabels'[j].name)
                                   < MemPos(d, fuselabels'[k].name)]_vars

\* the exceptions a handler of the fuses tab can leave with
Exceptions == {"NameError", "OverflowError", "AttributeError",
               "UnboundLocalError"}

\* fuseval_changed has been run on slot s with the text that its entry holds
\* afterwards
EditStep(s) ==
    /\ SlotKey(fuselabels, s) # 0
    /\ fuseval_changed(s, fval'[s + 1])

\* C25: fuseval_changed handles every entry text without failing: an empty or
\* whitespace entry clears the fuse memory and the changed flag, a text that
\* is not hexadecimal logs a warning and leaves memory and flag alone, and a
\* text that parses as a hexadecimal integer stores one byte of that value
\* and sets the flag.
C25_EveryEntryHandled ==
    [][\A s \in 0..(NumFval - 1) :
        EditStep(s) =>
            LET k == SlotKey(fuselabels, s)
                t == fval'[s + 1]
                m == fuselabels[k].name
            IN  /\ \A c \in Logged' : c.call \notin Exceptions
                /\ (Len(t) = 0 \/ isspace(t)) =>
                       /\ calls' = <<ClearCall(dev, m, connected)>>
                       /\ ~fuselabels'[k].allocated
                /\ (Len(t) > 0 /\ ~isspace(t) /\ ~int16(t).ok) =>
                       /\ calls' = <<LogWarning>>
                       /\ fuselabels' = fuselabels
                /\ int16(t).ok =>
                       /\ calls' = <<PutCall(m, int16(t).val)>>
                       /\ fuselabels'[k].allocated]_vars

\* C26: program_fuses issues one avr_write_mem of length 1 for each fuse whose
\* changed flag is set and whose entry is not whitespace and no other write,
\* and clears the flag of every fuse it wrote whether or not the write
\* succeeded, so that a second program_fuses finds no fuse to write.
C26_ProgramOnce ==
    [][\A ok \in BOOLEAN :
        program_fuses(ok) =>
            LET due(k)    == /\ fuselabels[k].allocated
                             /\ ~isspace(fval[fuselabels[k].idx + 1])
                writes(m) == { n \in 1..Len(calls') :
                                 /\ calls'[n].call = "avr_write_mem"
                                 /\ calls'[n].mem = m }
            IN  /\ \A n \in 1..Len(calls') :
                       calls'[n].call = "avr_write_mem" =>
                           /\ calls'[n].len = 1
                           /\ \E k \in 1..Len(fuselabels) :
                                  due(k) /\ fuselabels[k].name = calls'[n].mem
                /\ \A k \in 1..Len(fuselabels) :
                       /\ due(k) => Cardinality(writes(fuselabels[k].name)) = 1
                       /\ due(k) => ~fuselabels'[k].allocated
                       /\ ~(/\ fuselabels'[k].allocated
                            /\ ~isspace(fval'[fuselabels'[k].idx + 1]))]_vars

\* program_fuses has written a fuse, the device has refused the byte, and the
\* changed flag of the fuse is down
C26_Witness ==
    \E c \in Logged :
        /\ c.call = "avr_write_mem"
        /\ c.len = 1
        /\ c.rv < 0
        /\ \E k \in 1..Len(fuselabels) :
               fuselabels[k].name = c.mem /\ ~fuselabels[k].allocated

\* ----------------------------------------- properties of scripts_decoder.py

\* the chips and functions the scan collected bytes for
Collected ==
    { <<c, f>> \in Chips \X c_dict :
        DictHas(decoder.scripts, c) /\ DictHas(DictGet(decoder.scripts, c), f) }

\* C30: after the reordering, for every chip and function the entry of
\* func_dict[function] at the position mcu_dict[chip][function] is the byte
\* sequence collected for that chip and function, and no list
\* func_dict[function] holds two equal byte sequences.
C30_ReorderKeepsBytes ==
    decoder.pos = "converted" =>
        /\ \A cf \in Collected :
               LET x == DictGet(DictGet(decoder.mcu_dict, cf[1]), cf[2])
                   a == DictGet(decoder.func_dict, cf[2])
               IN  /\ x \in 0..(Len(a) - 1)
                   /\ a[x + 1] = DictGet(DictGet(decoder.scripts, cf[1]), cf[2])
        /\ \A n \in 1..Len(decoder.func_dict) :
               LET a == decoder.func_dict[n][2]
               IN  \A i, j \in 1..Len(a) : a[i] = a[j] => i = j

\* two chips share one array of a function and another chip has an array of
\* its own for it
C30_Witness ==
    /\ decoder.pos = "converted"
    /\ \E f \in c_dict, c1, c2 \in Chips :
           /\ c1 # c2
           /\ <<c1, f>> \in Collected
           /\ <<c2, f>> \in Collected
           /\ DictGet(DictGet(decoder.mcu_dict, c1), f)
                  = DictGet(DictGet(decoder.mcu_dict, c2), f)
           /\ Len(DictGet(decoder.func_dict, f)) > 1

\* C28: the table get_pickit_script returns for a known chip holds, for every
\* function, the chip's own byte array, or NULL and length 0 when the chip
\* has no script for the function, whatever was looked up before.
C28_TableOfChip ==
    (decoder.ret = "avr_scripts" /\ DictHas(decoder.scripts, decoder.partdesc)) =>
        \A f \in c_dict :
            LET field == decoder.avr_scripts[f]
            IN  IF <<decoder.partdesc, f>> \in Collected
                THEN /\ field.array # -1
                     /\ DictGet(decoder.func_dict, f)[field.array + 1]
                            = DictGet(DictGet(decoder.scripts, decoder.partdesc), f)
                     /\ field.len = Len(DictGet(DictGet(decoder.scripts,
                                                        decoder.partdesc), f))
                ELSE field = ScriptField(-1, 0)

\* ------------------------------------------------ properties of the start-up

\* C21: avrdude_init reads exactly one avrdude.conf, the first that exists in
\* the order build directory, /etc, /usr/local/etc, and no later one; when
\* none exists, or the build directory cannot be determined, it returns
\* (False, message) without raising and reads nothing.
C21_FirstConfOnly ==
    conf.pos = "done" =>
        LET ds    == <<conf.builddir, "/etc", "/usr/local/etc">>
            exist == {k \in 1..3 : ds[k] # None /\ ds[k] \in conf.files}
        IN  IF conf.builddir # None /\ exist # {}
            THEN /\ conf.result = "True"
                 /\ conf.reads = <<ds[CHOOSE k \in exist : \A h \in exist : k <= h]>>
            ELSE /\ conf.result = "False"
                 /\ conf.reads = <<>>

====
